---- MODULE Spec2Model ----
\* The dynsec stall engine (hooks.h: do_stall_interruptible,
\* dynsec_wait_event_timeout, handle_stall_ioc), the stall table operations it
\* calls, and the hook adapters that produce the events, as a state machine.
EXTENDS Integers, Sequences, FiniteSets, TLC

\* ---------------------------------------------------------------- constants

\* errno values used by the stall engine
EPERM == 1
ECHILD == 10
ENOMEM == 12
EINVAL == 22

MAX_CONTINUE_RESPONSES == 256

\* config.h is not part of the sources: limits of the two timeouts
MIN_WAIT_TIMEOUT_MS == 1000
MAX_WAIT_TIMEOUT_MS == 15000
MAX_EXTENDED_TIMEOUT_MS == 300000

DEFAULT_DISABLED == 0
DEFAULT_ENABLED == 1

DYNSEC_RESPONSE_ALLOW == "ALLOW"
DYNSEC_RESPONSE_EPERM == "EPERM"
DYNSEC_RESPONSE_CONTINUE == "CONTINUE"
Responses == {DYNSEC_RESPONSE_ALLOW, DYNSEC_RESPONSE_EPERM, DYNSEC_RESPONSE_CONTINUE}

DYNSEC_STALL_MODE_STALL == "STALL"
DYNSEC_STALL_MODE_RELEASED == "RELEASED"

DYNSEC_STALL_MODE_SET == "STALL_MODE_SET"
DYNSEC_STALL_DEFAULT_TIMEOUT == "STALL_DEFAULT_TIMEOUT"
DYNSEC_STALL_CONTINUE_TIMEOUT == "STALL_CONTINUE_TIMEOUT"
DYNSEC_STALL_DEFAULT_DENY == "STALL_DEFAULT_DENY"

\* ------------------------------------------------------------------- bounds

\* responses the agent writes in one run of the stall specification
MaxResponses == 3
\* hook adapter calls in one run of the hook specification
MaxCalls == 2

\* the tasks that run a stalling hook
Tids == {42}
\* the task of the continuation-cap specification
CapTid == CHOOSE t \in Tids : TRUE
\* the request ids a response may carry; ids are assigned from 1, so no
\* event carries request id 0
ReqIds == 0 .. Cardinality(Tids)

\* values a configure request carries for a timeout
TimeoutInputs ==
    {0, MIN_WAIT_TIMEOUT_MS, MIN_WAIT_TIMEOUT_MS + 1000, MAX_WAIT_TIMEOUT_MS,
     MAX_EXTENDED_TIMEOUT_MS, MAX_EXTENDED_TIMEOUT_MS + 1}
\* of these, one below the least, one within the range, one above the largest
StepTimeouts ==
    {0, MIN_WAIT_TIMEOUT_MS + 1000, MAX_EXTENDED_TIMEOUT_MS + 1}
\* values a response carries as its continuation timeout (0: none)
ResponseTimeouts == {0, MAX_EXTENDED_TIMEOUT_MS}

VARIABLES
    global_config,   \* the Config record
    tbl_enabled,     \* stall_tbl_enabled(stall_tbl)
    next_req_id,     \* the request id the next insert assigns
    entry,           \* per task: its struct stall_entry
    stall,           \* per task: the locals of the stalling call, and its position
    hist,            \* per task: what has happened to the stall (history)
    responses_left,  \* responses the agent may still write
    task_cache,      \* the keys the task cache holds
    inode_cache,     \* the keys the inode cache holds
    ioc,             \* the most recent configure request (history)
    lsm_hooks_enabled, \* the hook types enabled in the hook mask
    hook,            \* per task: its hook adapter call
    calls,           \* the hook adapter calls made
    queue,           \* the normal delivery queue
    queue_low,       \* the low-priority delivery queue
    stream,          \* the events delivered to user space, in order
    submitted        \* the events the hook adapters have created

\* the hook adapters' side: the masks, the calls, the queues
hookvars == <<lsm_hooks_enabled, hook, calls, queue, queue_low, stream,
              submitted>>
\* the caches and the record of the last configure request
cachevars == <<task_cache, inode_cache, ioc>>

vars == <<global_config, tbl_enabled, next_req_id, entry, stall, hist,
          responses_left, task_cache, inode_cache, ioc, lsm_hooks_enabled,
          hook, calls, queue, queue_low, stream, submitted>>

\* ------------------------------------------------------------ pure helpers

\* <linux/jiffies.h> msecs_to_jiffies with HZ = 250: rounds up to whole jiffies
msecs_to_jiffies(m) == (m * 250 + 999) \div 1000

get_wait_timeout == global_config.stall_timeout
get_continue_timeout == global_config.stall_timeout_continue
stall_mode_enabled == global_config.stall_mode # DEFAULT_DISABLED
bypass_mode_enabled == global_config.bypass_mode # DEFAULT_DISABLED
ignore_mode_enabled == global_config.ignore_mode # DEFAULT_DISABLED
deny_on_timeout_enabled == global_config.stall_timeout_deny # DEFAULT_DISABLED

\* ------------------------------------------------------ handle_stall_ioc

IocFlagBits ==
    {DYNSEC_STALL_MODE_SET, DYNSEC_STALL_DEFAULT_TIMEOUT,
     DYNSEC_STALL_CONTINUE_TIMEOUT, DYNSEC_STALL_DEFAULT_DENY}

\* a stall mode that every selecting request with a non-zero value flips
IocStallMode_toggles(cfg, flags, hdr) ==
    IF DYNSEC_STALL_MODE_SET \in flags /\ hdr.stall_mode # DEFAULT_DISABLED
    THEN [cfg EXCEPT !.stall_mode =
                        IF cfg.stall_mode # DEFAULT_DISABLED
                        THEN DEFAULT_DISABLED ELSE DEFAULT_ENABLED]
    ELSE cfg

\* hooks.h 253-269
IocStallMode(cfg, flags, hdr) ==
    IF DYNSEC_STALL_MODE_SET \in flags
    THEN IF cfg.stall_mode # DEFAULT_DISABLED
         THEN IF hdr.stall_mode = DEFAULT_DISABLED
              THEN [cfg EXCEPT !.stall_mode = DEFAULT_DISABLED]
              ELSE cfg
         ELSE IF hdr.stall_mode # DEFAULT_DISABLED
              THEN [cfg EXCEPT !.stall_mode = DEFAULT_ENABLED]
              ELSE cfg
    ELSE cfg

\* a stall timeout without its least value
IocDefaultTimeout_no_floor(cfg, flags, hdr) ==
    IF DYNSEC_STALL_DEFAULT_TIMEOUT \in flags
    THEN [cfg EXCEPT !.stall_timeout =
                        IF hdr.stall_timeout < MAX_WAIT_TIMEOUT_MS
                        THEN hdr.stall_timeout ELSE MAX_WAIT_TIMEOUT_MS]
    ELSE cfg

\* hooks.h 270-281
IocDefaultTimeout(cfg, flags, hdr) ==
    IF DYNSEC_STALL_DEFAULT_TIMEOUT \in flags
    THEN LET t0 == IF hdr.stall_timeout < MAX_WAIT_TIMEOUT_MS
                   THEN hdr.stall_timeout ELSE MAX_WAIT_TIMEOUT_MS
             t1 == IF t0 < MIN_WAIT_TIMEOUT_MS THEN MIN_WAIT_TIMEOUT_MS ELSE t0
         IN [cfg EXCEPT !.stall_timeout = t1]
    ELSE cfg

\* hooks.h 282-297
IocContinueTimeout(cfg, flags, hdr) ==
    IF DYNSEC_STALL_CONTINUE_TIMEOUT \in flags
    THEN LET t0 == IF hdr.stall_timeout_continue > cfg.stall_timeout
                   THEN hdr.stall_timeout_continue ELSE cfg.stall_timeout
             t1 == IF t0 > MAX_EXTENDED_TIMEOUT_MS THEN MAX_EXTENDED_TIMEOUT_MS ELSE t0
         IN [cfg EXCEPT !.stall_timeout_continue = t1]
    ELSE cfg

\* a default verdict that is set whether or not its flag selects it
IocDefaultDeny_unselected(cfg, flags, hdr) ==
    IF hdr.stall_timeout_deny = DEFAULT_DISABLED
    THEN [cfg EXCEPT !.stall_timeout_deny = DEFAULT_DISABLED]
    ELSE [cfg EXCEPT !.stall_timeout_deny = DEFAULT_ENABLED]

\* hooks.h 299-311
IocDefaultDeny(cfg, flags, hdr) ==
    IF DYNSEC_STALL_DEFAULT_DENY \in flags
    THEN IF cfg.stall_timeout_deny # DEFAULT_DISABLED
         THEN IF hdr.stall_timeout_deny = DEFAULT_DISABLED
              THEN [cfg EXCEPT !.stall_timeout_deny = DEFAULT_DISABLED]
              ELSE cfg
         ELSE IF hdr.stall_timeout_deny # DEFAULT_DISABLED
              THEN [cfg EXCEPT !.stall_timeout_deny = DEFAULT_ENABLED]
              ELSE cfg
    ELSE cfg

\* hooks.h 252-312: the four updates in the order of the code, under lock_config
IocApply(cfg, flags, hdr) ==
    IocDefaultDeny(
        IocContinueTimeout(
            IocDefaultTimeout(IocStallMode(cfg, flags, hdr), flags, hdr),
            flags, hdr),
        flags, hdr)

\* a request that is carried out for an unprivileged caller
IocRet_skips_capable(hdr, capable) ==
    IF hdr.flags \cap IocFlagBits = {} THEN -EINVAL ELSE 0

\* hooks.h 230-315: the return value
IocRet(hdr, capable) ==
    IF hdr.flags \cap IocFlagBits = {} THEN -EINVAL
    ELSE IF ~capable THEN -EPERM
    ELSE 0

\* caches that are cleared only when stalling is turned off
IocFlush_on_disable_only(cfg, flags, hdr) ==
    /\ DYNSEC_STALL_MODE_SET \in flags
    /\ cfg.stall_mode # DEFAULT_DISABLED
    /\ hdr.stall_mode = DEFAULT_DISABLED

\* hooks.h 253-269: does the request call task_cache_clear and
\* inode_cache_clear
IocFlush(cfg, flags, hdr) ==
    /\ DYNSEC_STALL_MODE_SET \in flags
    /\ IF cfg.stall_mode # DEFAULT_DISABLED
       THEN hdr.stall_mode = DEFAULT_DISABLED
       ELSE hdr.stall_mode # DEFAULT_DISABLED

\* task_cache_clear, inode_cache_clear: the cache holds nothing afterwards
task_cache_clear(cache) == {}
inode_cache_clear(cache) == {}

\* hooks.h 230-315: handle_stall_ioc as one step (its writes are made under
\* the config lock)
handle_stall_ioc(hdr, capable) ==
    /\ global_config' =
         IF IocRet(hdr, capable) = 0
         THEN IocApply(global_config, hdr.flags \cap IocFlagBits, hdr)
         ELSE global_config
    /\ IF /\ IocRet(hdr, capable) = 0
          /\ IocFlush(global_config, hdr.flags \cap IocFlagBits, hdr)
       THEN /\ task_cache' = task_cache_clear(task_cache)
            /\ inode_cache' = inode_cache_clear(inode_cache)
       ELSE UNCHANGED <<task_cache, inode_cache>>
    /\ ioc' = [ret |-> IocRet(hdr, capable), capable |-> capable,
               known |-> hdr.flags \cap IocFlagBits # {}]
    /\ hist' = [t \in Tids |->
                 IF /\ stall[t].pc = "wait"
                    /\ global_config.stall_mode # DEFAULT_DISABLED
                    /\ global_config'.stall_mode = DEFAULT_DISABLED
                 THEN [hist[t] EXCEPT !.mode_off_in_wait = TRUE]
                 ELSE hist[t]]
    /\ UNCHANGED <<tbl_enabled, next_req_id, entry, stall, responses_left>>
    /\ UNCHANGED hookvars

\* the request headers a configure request is drawn from
\* (a field that the flags do not select is never read, and is 0)
IocHdrs ==
    {h \in [flags : SUBSET (IocFlagBits \cup {"UNKNOWN_BIT"}),
            stall_mode : {0, 1, 2},
            stall_timeout : TimeoutInputs,
            stall_timeout_continue : TimeoutInputs,
            stall_timeout_deny : {0, 1}] :
        /\ DYNSEC_STALL_MODE_SET \notin h.flags => h.stall_mode = 0
        /\ DYNSEC_STALL_DEFAULT_TIMEOUT \notin h.flags => h.stall_timeout = 0
        /\ DYNSEC_STALL_CONTINUE_TIMEOUT \notin h.flags =>
              h.stall_timeout_continue = 0
        /\ DYNSEC_STALL_DEFAULT_DENY \notin h.flags => h.stall_timeout_deny = 0}

\* headers that select the stall mode or the default verdict only
StallIocHdrs ==
    [flags : {{DYNSEC_STALL_MODE_SET}},
     stall_mode : {DEFAULT_DISABLED, DEFAULT_ENABLED},
     stall_timeout : {0},
     stall_timeout_continue : {0},
     stall_timeout_deny : {DEFAULT_DISABLED}]
    \cup
    [flags : {{DYNSEC_STALL_DEFAULT_DENY}},
     stall_mode : {DEFAULT_DISABLED},
     stall_timeout : {0},
     stall_timeout_continue : {0},
     stall_timeout_deny : {DEFAULT_DISABLED, DEFAULT_ENABLED}]

\* ------------------------------------- handle_stall_ioc, statement by statement

\* lock_config, unlock_config: the config lock is held after the one and free
\* after the other; lock_config returns only once the lock is free
lock_config(locked) == TRUE
unlock_config(locked) == FALSE

\* hooks.h 238-243: the flags of the request, masked to the four known ones
IocFlags(hdr) == hdr.flags \cap IocFlagBits

\* a request that takes the config lock before its checks
IocTakesLock_before_checks(ret) == TRUE

\* hooks.h 234-252: the returns of -EINVAL and -EPERM come before
\* lock_config, so that only a request that passes its checks takes the lock
IocTakesLock(ret) == ret = 0

\* no configure request is being handled; before is the Config as the next
\* request will find it
IdleIoc(cfg) ==
    [pc |-> "idle", hdr |-> [flags |-> {}, stall_mode |-> 0, stall_timeout |-> 0,
                             stall_timeout_continue |-> 0,
                             stall_timeout_deny |-> 0],
     capable |-> TRUE, flags |-> {}, ret |-> 0, before |-> cfg,
     locked |-> FALSE, took_lock |-> FALSE]

\* a configure request leaves the stall table, the stalls and the hook
\* adapters' side alone
IocFrame ==
    /\ UNCHANGED <<tbl_enabled, next_req_id, entry, stall, hist,
                   responses_left>>
    /\ UNCHANGED hookvars

\* the request headers of the statement-level specification: a timeout below
\* the least, within the range and above the largest value
StepHdrs ==
    {h \in IocHdrs :
        /\ h.stall_timeout \in StepTimeouts
        /\ h.stall_timeout_continue \in StepTimeouts}

\* hooks.h 230-250: the call and its checks
handle_stall_ioc_enter(hdr, capable) ==
    /\ ioc.pc = "idle"
    /\ ioc' = [ioc EXCEPT !.pc = IF IocTakesLock(IocRet(hdr, capable))
                                 THEN "lock" ELSE "returned",
                          !.hdr = hdr, !.capable = capable,
                          !.flags = IocFlags(hdr),
                          !.ret = IocRet(hdr, capable),
                          !.before = global_config]
    /\ UNCHANGED <<global_config, task_cache, inode_cache>>
    /\ IocFrame

\* hooks.h 252: lock_config
handle_stall_ioc_lock ==
    /\ ioc.pc = "lock"
    /\ ~ioc.locked
    /\ ioc' = [ioc EXCEPT !.pc = "stall_mode",
                          !.locked = lock_config(@), !.took_lock = TRUE]
    /\ UNCHANGED <<global_config, task_cache, inode_cache>>
    /\ IocFrame

\* hooks.h 253-269: the stall mode, and the caches' flush
handle_stall_ioc_stall_mode ==
    /\ ioc.pc = "stall_mode"
    /\ global_config' = IocStallMode(global_config, ioc.flags, ioc.hdr)
    /\ IF IocFlush(global_config, ioc.flags, ioc.hdr)
       THEN /\ task_cache' = task_cache_clear(task_cache)
            /\ inode_cache' = inode_cache_clear(inode_cache)
       ELSE UNCHANGED <<task_cache, inode_cache>>
    /\ ioc' = [ioc EXCEPT !.pc = "default_timeout"]
    /\ IocFrame

\* hooks.h 270-281
handle_stall_ioc_default_timeout ==
    /\ ioc.pc = "default_timeout"
    /\ global_config' = IocDefaultTimeout(global_config, ioc.flags, ioc.hdr)
    /\ ioc' = [ioc EXCEPT !.pc = "continue_timeout"]
    /\ UNCHANGED <<task_cache, inode_cache>>
    /\ IocFrame

\* hooks.h 282-297
handle_stall_ioc_continue_timeout ==
    /\ ioc.pc = "continue_timeout"
    /\ global_config' = IocContinueTimeout(global_config, ioc.flags, ioc.hdr)
    /\ ioc' = [ioc EXCEPT !.pc = "default_deny"]
    /\ UNCHANGED <<task_cache, inode_cache>>
    /\ IocFrame

\* hooks.h 299-311
handle_stall_ioc_default_deny ==
    /\ ioc.pc = "default_deny"
    /\ global_config' = IocDefaultDeny(global_config, ioc.flags, ioc.hdr)
    /\ ioc' = [ioc EXCEPT !.pc = "unlock"]
    /\ UNCHANGED <<task_cache, inode_cache>>
    /\ IocFrame

\* hooks.h 312-314: unlock_config and the return of 0
handle_stall_ioc_unlock ==
    /\ ioc.pc = "unlock"
    /\ ioc' = [ioc EXCEPT !.pc = "returned", !.locked = unlock_config(@)]
    /\ UNCHANGED <<global_config, task_cache, inode_cache>>
    /\ IocFrame

\* the caller has its return value; the request is over
handle_stall_ioc_return ==
    /\ ioc.pc = "returned"
    /\ ioc' = [IdleIoc(global_config) EXCEPT !.locked = ioc.locked]
    /\ UNCHANGED <<global_config, task_cache, inode_cache>>
    /\ IocFrame

\* ----------------------------------------------------------- stall table

NoEntry ==
    [state |-> "none", linked |-> FALSE, req_id |-> 0,
     mode |-> DYNSEC_STALL_MODE_STALL, response |-> DYNSEC_RESPONSE_ALLOW,
     stall_timeout |-> 0]

\* the response a new entry starts with: the configured default
DefaultResponse(cfg) ==
    IF cfg.stall_timeout_deny # DEFAULT_DISABLED
    THEN DYNSEC_RESPONSE_EPERM ELSE DYNSEC_RESPONSE_ALLOW

\* stall_tbl_insert: a fresh entry, published under the shard lock
stall_tbl_insert(cfg, id) ==
    [state |-> "live", linked |-> TRUE, req_id |-> id,
     mode |-> DYNSEC_STALL_MODE_STALL, response |-> DefaultResponse(cfg),
     stall_timeout |-> 0]

\* stall_tbl_remove_entry: unlinks the entry if it is still linked
stall_tbl_remove_entry(e) == [e EXCEPT !.linked = FALSE]

\* the tasks whose entry the table finds under request id r
Lookup(r) == {t \in Tids : entry[t].linked /\ entry[t].req_id = r}

\* the entry after a response has been stored in it
ResolveEntry(e, resp, tmo) ==
    [e EXCEPT !.response = resp, !.stall_timeout = tmo,
              !.mode = DYNSEC_STALL_MODE_RELEASED]

\* resolve(request_id, response, continuation_timeout): the write of a
\* response. An unknown request id is accepted silently.
resolve(r, resp, tmo) ==
    /\ IF tbl_enabled /\ Lookup(r) # {}
       THEN \E t \in Lookup(r) :
              IF entry[t].state = "freed"
              THEN \* the table still links memory that was freed
                   /\ hist' = [hist EXCEPT ![t].uaf = TRUE]
                   /\ UNCHANGED entry
              ELSE /\ entry' = [entry EXCEPT ![t] = ResolveEntry(@, resp, tmo)]
                   /\ hist' = [hist EXCEPT
                                 ![t].delivered = @ \cup {resp},
                                 ![t].last_delivered = resp,
                                 ![t].pending = TRUE,
                                 ![t].before_wait =
                                    IF stall[t].pc \in {"stall_init", "retry"}
                                       /\ stall[t].continue_count = 0
                                    THEN @ \cup {resp} ELSE @]
       ELSE UNCHANGED <<entry, hist>>
    /\ UNCHANGED <<global_config, tbl_enabled, next_req_id, stall>>
    /\ UNCHANGED <<hookvars, cachevars>>

\* the agent writes one response, out of the responses it has left
agent_write(r, resp, tmo) ==
    /\ responses_left > 0
    /\ responses_left' = responses_left - 1
    /\ resolve(r, resp, tmo)

\* the agent writes one response that carries no continuation timeout
agent_write_unbounded(r, resp) ==
    /\ UNCHANGED responses_left
    /\ resolve(r, resp, 0)

\* the stall table is disabled (the agent disconnects)
stall_tbl_disable ==
    /\ tbl_enabled
    /\ tbl_enabled' = FALSE
    /\ UNCHANGED <<global_config, next_req_id, entry, stall, hist,
                   responses_left>>
    /\ UNCHANGED <<hookvars, cachevars>>

\* ---------------------------------------------------------- stall engine

NoStall ==
    [pc |-> "idle", default_reponse |-> DYNSEC_RESPONSE_ALLOW,
     local_response |-> DYNSEC_RESPONSE_ALLOW, local_timeout |-> 0,
     timeout |-> 0, continue_count |-> 0, ret |-> 0, response |-> 0,
     rc |-> 0, hook_ret |-> 0]

NoHist ==
    [ended |-> "none", removes |-> 0, cfg_default |-> DYNSEC_RESPONSE_ALLOW,
     delivered |-> {}, last_delivered |-> "NONE", copied |-> "NONE",
     last_read |-> "NONE", read_timeout |-> 0, before_wait |-> {}, mode_off_in_wait |-> FALSE,
     waited |-> 0, rounds |-> 0, pending |-> FALSE, uaf |-> FALSE,
     event |-> "hook"]

\* a hook that hands an error of the stall engine to the OS
HookRet_passes_error(rc, response) == IF rc = 0 THEN response ELSE rc

\* part_000 57-63: what the hook returns to the OS
HookRet(rc, response) == IF rc = 0 THEN response ELSE 0

\* hooks.h 195-219: dynsec_wait_event_timeout up to the insert, called by a
\* hook adapter whose event carries the STALL flag
dynsec_wait_event_timeout(t, ignore_flag, insert_err) ==
    /\ hook[t].pc = "stalling"
    /\ stall[t].pc = "idle"
    /\ IF ~tbl_enabled
       THEN /\ stall' = [stall EXCEPT ![t].pc = "done", ![t].response = 0,
                                      ![t].rc = -EINVAL,
                                      ![t].hook_ret = HookRet(-EINVAL, 0)]
            /\ hist' = [hist EXCEPT ![t].ended = "tbl_off",
                                     ![t].event = "freed"]
            /\ UNCHANGED <<entry, next_req_id>>
       ELSE IF ignore_flag /\ ignore_mode_enabled
       THEN /\ stall' = [stall EXCEPT ![t].pc = "done", ![t].response = 0,
                                      ![t].rc = -ECHILD,
                                      ![t].hook_ret = HookRet(-ECHILD, 0)]
            /\ hist' = [hist EXCEPT ![t].ended = "ignored",
                                     ![t].event = "freed"]
            /\ UNCHANGED <<entry, next_req_id>>
       ELSE IF insert_err
       THEN /\ stall' = [stall EXCEPT ![t].pc = "done", ![t].response = 0,
                                      ![t].rc = -ENOMEM,
                                      ![t].hook_ret = HookRet(-ENOMEM, 0)]
            /\ hist' = [hist EXCEPT ![t].ended = "insert_failed",
                                     ![t].event = "freed"]
            /\ UNCHANGED <<entry, next_req_id>>
       ELSE /\ entry' = [entry EXCEPT
                           ![t] = stall_tbl_insert(global_config, next_req_id)]
            /\ next_req_id' = next_req_id + 1
            /\ stall' = [stall EXCEPT ![t].pc = "stall_init", ![t].response = 0]
            /\ hist' = [hist EXCEPT
                          ![t].cfg_default = DefaultResponse(global_config),
                          ![t].event = "table"]
    /\ UNCHANGED <<global_config, tbl_enabled, responses_left>>
    /\ UNCHANGED <<hookvars, cachevars>>

\* hooks.h 98-108: the locals of do_stall_interruptible before the first round
do_stall_init(t) ==
    /\ stall[t].pc = "stall_init"
    /\ stall' = [stall EXCEPT
                   ![t].pc = "retry",
                   ![t].ret = 0,
                   ![t].continue_count = 0,
                   ![t].default_reponse = entry[t].response,
                   ![t].timeout = msecs_to_jiffies(get_wait_timeout),
                   ![t].local_response = entry[t].response]
    /\ UNCHANGED <<global_config, tbl_enabled, next_req_id, entry, hist,
                   responses_left>>
    /\ UNCHANGED <<hookvars, cachevars>>

\* hooks.h 111-119: the three checks at the retry label
StallAborted ==
    \/ ~tbl_enabled
    \/ ~stall_mode_enabled
    \/ bypass_mode_enabled

\* hooks.h 110-121: the retry label; an abort returns -ECHILD at once
do_stall_retry(t) ==
    /\ stall[t].pc = "retry"
    /\ IF StallAborted
       THEN /\ stall' = [stall EXCEPT ![t].pc = "kfree", ![t].ret = -ECHILD]
            /\ hist' = [hist EXCEPT ![t].ended = "disabled"]
       ELSE /\ stall' = [stall EXCEPT
                           ![t].pc = "wait",
                           ![t].local_timeout = 0,
                           ![t].local_response = stall[t].default_reponse]
            /\ hist' = [hist EXCEPT ![t].waited = @ + stall[t].timeout,
                                     ![t].rounds = @ + 1]
    /\ UNCHANGED <<global_config, tbl_enabled, next_req_id, entry,
                   responses_left>>
    /\ UNCHANGED <<hookvars, cachevars>>

\* hooks.h 124-126: the condition wait_event_interruptible_timeout waits for
WaitCondition(e) == e.mode # DYNSEC_STALL_MODE_STALL

\* hooks.h 124-126, 145-146: the wait returns > 0, the condition is true
do_stall_woken(t) ==
    /\ stall[t].pc = "wait"
    /\ WaitCondition(entry[t])
    /\ stall' = [stall EXCEPT ![t].pc = "released"]
    /\ UNCHANGED <<global_config, tbl_enabled, next_req_id, entry, hist,
                   responses_left>>
    /\ UNCHANGED <<hookvars, cachevars>>

\* hooks.h 124-126, 136-144: the wait returns 0, the timeout elapsed
do_stall_timedout(t) ==
    /\ stall[t].pc = "wait"
    /\ ~WaitCondition(entry[t])
    /\ stall' = [stall EXCEPT ![t].pc = "finish"]
    /\ hist' = [hist EXCEPT ![t].ended = "timeout"]
    /\ UNCHANGED <<global_config, tbl_enabled, next_req_id, entry,
                   responses_left>>
    /\ UNCHANGED <<hookvars, cachevars>>

\* hooks.h 124-135: the wait returns < 0, a signal is pending
do_stall_interrupted(t) ==
    /\ stall[t].pc = "wait"
    /\ ~WaitCondition(entry[t])
    /\ stall' = [stall EXCEPT ![t].pc = "finish"]
    /\ hist' = [hist EXCEPT ![t].ended = "interrupt"]
    /\ UNCHANGED <<global_config, tbl_enabled, next_req_id, entry,
                   responses_left>>
    /\ UNCHANGED <<hookvars, cachevars>>

\* a waiter that leaves the entry released after its copy
Rearm_forgets(e) == e

\* hooks.h 153-154: the mode is set back to STALL
Rearm(e) == [e EXCEPT !.mode = DYNSEC_STALL_MODE_STALL]

\* hooks.h 149-156: the copy and the re-arm under entry->lock
do_stall_released(t) ==
    /\ stall[t].pc = "released"
    /\ stall' = [stall EXCEPT
                   ![t].pc = "released_unlocked",
                   ![t].local_response = entry[t].response,
                   ![t].local_timeout = entry[t].stall_timeout]
    /\ entry' = [entry EXCEPT ![t] = Rearm(@)]
    /\ hist' = [hist EXCEPT ![t].copied = hist[t].last_delivered,
                             ![t].last_read = entry[t].response,
                             ![t].read_timeout = entry[t].stall_timeout,
                             ![t].pending = FALSE]
    /\ UNCHANGED <<global_config, tbl_enabled, next_req_id,
                   responses_left>>
    /\ UNCHANGED <<hookvars, cachevars>>

\* a next round that always takes the configured continuation timeout
ContinueTimeout_ignores_response(local_timeout) ==
    msecs_to_jiffies(get_continue_timeout)

\* hooks.h 160-164: the timeout of the next round
ContinueTimeout(local_timeout) ==
    IF local_timeout # 0
    THEN msecs_to_jiffies(local_timeout)
    ELSE msecs_to_jiffies(get_continue_timeout)

\* a stall that goes round for as long as the agent answers CONTINUE
MayContinue_uncapped(continue_count) == TRUE

\* the cap compared with <= : one continuation too many
MayContinue_off_by_one(continue_count) == continue_count <= MAX_CONTINUE_RESPONSES

\* hooks.h 172: may the stall go round again
MayContinue(continue_count) == continue_count < MAX_CONTINUE_RESPONSES

\* hooks.h 159-177: after the lock is dropped
do_stall_continue(t) ==
    /\ stall[t].pc = "released_unlocked"
    /\ IF stall[t].local_response = DYNSEC_RESPONSE_CONTINUE
       THEN IF MayContinue(stall[t].continue_count + 1)
            THEN /\ stall' = [stall EXCEPT
                                ![t].pc = "retry",
                                ![t].timeout = ContinueTimeout(stall[t].local_timeout),
                                ![t].continue_count = @ + 1]
                 /\ UNCHANGED hist
            ELSE /\ stall' = [stall EXCEPT
                                ![t].pc = "finish",
                                ![t].timeout = ContinueTimeout(stall[t].local_timeout),
                                ![t].continue_count = @ + 1,
                                ![t].ret = -ECHILD]
                 /\ hist' = [hist EXCEPT ![t].ended = "cap"]
       ELSE /\ stall' = [stall EXCEPT ![t].pc = "finish"]
            /\ hist' = [hist EXCEPT ![t].ended = "released"]
    /\ UNCHANGED <<global_config, tbl_enabled, next_req_id, entry,
                   responses_left>>
    /\ UNCHANGED <<hookvars, cachevars>>

\* a DENY that is never handed back
ResponseOut_drops_deny(local_response, response) == response

\* hooks.h 179-181: the response handed back through *response
ResponseOut(local_response, response) ==
    IF local_response = DYNSEC_RESPONSE_EPERM THEN -EPERM ELSE response

\* hooks.h 179-187: the verdict, and the removal from the table
do_stall_finish(t) ==
    /\ stall[t].pc = "finish"
    /\ stall' = [stall EXCEPT
                   ![t].pc = "kfree",
                   ![t].response = ResponseOut(stall[t].local_response, @)]
    /\ entry' = [entry EXCEPT ![t] = stall_tbl_remove_entry(@)]
    /\ hist' = [hist EXCEPT ![t].removes = @ + 1]
    /\ UNCHANGED <<global_config, tbl_enabled, next_req_id,
                   responses_left>>
    /\ UNCHANGED <<hookvars, cachevars>>

\* hooks.h 222: what dynsec_wait_event_timeout returns after the stall
WaitEventRet(ret) == 0

\* hooks.h 221-226: the entry is freed and the call returns
dynsec_wait_event_return(t) ==
    /\ stall[t].pc = "kfree"
    /\ entry' = [entry EXCEPT ![t].state = "freed"]
    /\ stall' = [stall EXCEPT
                   ![t].pc = "done",
                   ![t].rc = WaitEventRet(stall[t].ret),
                   ![t].hook_ret = HookRet(WaitEventRet(stall[t].ret),
                                           stall[t].response)]
    /\ UNCHANGED <<global_config, tbl_enabled, next_req_id, hist,
                   responses_left>>
    /\ UNCHANGED <<hookvars, cachevars>>

\* ---------------------------------------------------------- hook adapters

DYNSEC_REPORT_AUDIT == "REPORT_AUDIT"
DYNSEC_REPORT_STALL == "REPORT_STALL"
DYNSEC_REPORT_SELF == "REPORT_SELF"

GFP_KERNEL == "GFP_KERNEL"
GFP_ATOMIC == "GFP_ATOMIC"

\* part_000: the adapters that mark the event SELF or else STALL
StallAdapters ==
    {"dynsec_bprm_set_creds", "dynsec_inode_unlink", "dynsec_inode_rmdir",
     "dynsec_inode_rename", "dynsec_inode_setattr", "dynsec_inode_mkdir",
     "dynsec_inode_create", "dynsec_inode_link", "dynsec_inode_symlink"}

\* hooks.c: its four adapters
HooksCAdapters ==
    {"hooks.c:dynsec_bprm_set_creds", "hooks.c:dynsec_inode_unlink",
     "hooks.c:dynsec_inode_rmdir", "hooks.c:dynsec_inode_rename"}

\* part_000: the adapters that only enqueue, and mark the event SELF
AuditAdapters ==
    {"dynsec_file_free_security", "dynsec_ptrace_traceme",
     "dynsec_ptrace_access_check", "dynsec_task_kill",
     "dynsec_sched_process_fork_tp", "dynsec_wake_up_new_task"}

\* part_000 934-955: the three callers of __dynsec_task_exit
ExitAdapters ==
    {"dynsec_task_free", "dynsec_sched_process_exit_tp",
     "dynsec_sched_process_free_tp"}

Adapters ==
    StallAdapters \cup HooksCAdapters \cup AuditAdapters \cup ExitAdapters
    \cup {"dynsec_file_open", "dynsec_mmap_file"}

\* the hook type each adapter gives its event
HookType(h) ==
    CASE h \in {"dynsec_bprm_set_creds", "hooks.c:dynsec_bprm_set_creds"}
           -> "DYNSEC_HOOK_TYPE_EXEC"
      [] h \in {"dynsec_inode_unlink", "hooks.c:dynsec_inode_unlink"}
           -> "DYNSEC_HOOK_TYPE_UNLINK"
      [] h \in {"dynsec_inode_rmdir", "hooks.c:dynsec_inode_rmdir"}
           -> "DYNSEC_HOOK_TYPE_RMDIR"
      [] h \in {"dynsec_inode_rename", "hooks.c:dynsec_inode_rename"}
           -> "DYNSEC_HOOK_TYPE_RENAME"
      [] h = "dynsec_inode_setattr" -> "DYNSEC_HOOK_TYPE_SETATTR"
      [] h = "dynsec_inode_mkdir" -> "DYNSEC_HOOK_TYPE_MKDIR"
      [] h = "dynsec_inode_create" -> "DYNSEC_HOOK_TYPE_CREATE"
      [] h = "dynsec_inode_link" -> "DYNSEC_HOOK_TYPE_LINK"
      [] h = "dynsec_inode_symlink" -> "DYNSEC_HOOK_TYPE_SYMLINK"
      [] h = "dynsec_file_open" -> "DYNSEC_HOOK_TYPE_OPEN"
      [] h = "dynsec_file_free_security" -> "DYNSEC_HOOK_TYPE_CLOSE"
      [] h \in {"dynsec_ptrace_traceme", "dynsec_ptrace_access_check"}
           -> "DYNSEC_HOOK_TYPE_PTRACE"
      [] h = "dynsec_task_kill" -> "DYNSEC_HOOK_TYPE_SIGNAL"
      [] h \in {"dynsec_sched_process_fork_tp", "dynsec_wake_up_new_task"}
           -> "DYNSEC_TP_HOOK_TYPE_CLONE"
      [] h = "dynsec_task_free" -> "DYNSEC_HOOK_TYPE_TASK_FREE"
      [] h = "dynsec_sched_process_exit_tp" -> "DYNSEC_TP_HOOK_TYPE_EXIT"
      [] h = "dynsec_sched_process_free_tp" -> "DYNSEC_TP_HOOK_TYPE_TASK_FREE"
      [] h = "dynsec_mmap_file" -> "DYNSEC_HOOK_TYPE_MMAP"

HookTypes == {HookType(h) : h \in Adapters}

\* the adapters whose code tests its bit of lsm_hooks_enabled (part_000 30,
\* 88, 152, 218, 291, 401, 457, 508, 559, 622, 689, 740, 779, 837)
ChecksHookMask(h) ==
    h \in StallAdapters
          \cup {"dynsec_file_open", "dynsec_file_free_security",
                "dynsec_ptrace_traceme", "dynsec_ptrace_access_check",
                "dynsec_task_kill"}

\* the adapters whose code has the branch that calls dynsec_wait_event_timeout
MayStall(h) ==
    h \in StallAdapters \cup HooksCAdapters
          \cup {"dynsec_file_open", "dynsec_mmap_file"}

\* the allocation mode the adapter passes to alloc_dynsec_event
AllocMode_all_kernel(h) == GFP_KERNEL

AllocMode(h) ==
    IF h \in StallAdapters \cup HooksCAdapters
             \cup {"dynsec_file_open", "dynsec_mmap_file"}
    THEN GFP_KERNEL ELSE GFP_ATOMIC

\* an adapter that forgets the event when its filling fails
FreesUnfilled_never(h) == FALSE

\* part_000 52-55: every adapter frees an event it could not fill
FreesUnfilled(h) == h \in Adapters

\* hooks.c 57-61: only the adapters of hooks.c free an event that
\* enqueue_nonstall_event did not accept
FreesRejected(h) == h \in HooksCAdapters

\* part_000 958-961: the values of mmap_report_misc, mmap_stall_misc,
\* mmap_stall_on_exec and mmap_stall_on_ldso; they are globals that any code
\* of the module may write, and a call reads what they hold
MmapPolicies ==
    [mmap_report_misc : {0, 1}, mmap_stall_misc : {0, 1},
     mmap_stall_on_exec : {0, 1}, mmap_stall_on_ldso : {0, 1}]

\* part_000 958-961: the values the flags are initialised with
DefaultMmapPolicy ==
    [mmap_report_misc |-> 1, mmap_stall_misc |-> 0, mmap_stall_on_exec |-> 1,
     mmap_stall_on_ldso |-> 1]

\* part_000 1000-1018: the policies as one call reads them: a mapping during
\* exec reads mmap_stall_on_exec and mmap_stall_on_ldso, any other one reads
\* mmap_stall_misc and mmap_report_misc and not MAP_EXECUTABLE; a flag that
\* the call does not read has its initial value
MmapPoliciesRead(in_exec, map_executable) ==
    {pol \in MmapPolicies :
        IF in_exec
        THEN /\ pol.mmap_stall_misc = DefaultMmapPolicy.mmap_stall_misc
             /\ pol.mmap_report_misc = DefaultMmapPolicy.mmap_report_misc
        ELSE /\ ~map_executable
             /\ pol.mmap_stall_on_exec = DefaultMmapPolicy.mmap_stall_on_exec
             /\ pol.mmap_stall_on_ldso = DefaultMmapPolicy.mmap_stall_on_ldso}

ATTR_MODE == "ATTR_MODE"
ATTR_UID == "ATTR_UID"
ATTR_GID == "ATTR_GID"
ATTR_SIZE == "ATTR_SIZE"
ATTR_FILE == "ATTR_FILE"

\* the arguments the kind-specific filters read. PlainCall passes them all:
\* a regular file open for writing, a ptrace attach, a change of mode, a
\* mapping outside exec under the initial mmap policy
PlainCall ==
    [regular |-> TRUE, stream |-> FALSE, nonotify |-> FALSE, write |-> TRUE,
     attach |-> TRUE, ia_valid |-> {ATTR_MODE},
     ia_mode |-> 1, i_mode |-> 0, ia_uid |-> 0, i_uid |-> 0,
     ia_gid |-> 0, i_gid |-> 0, ia_size |-> 0, i_size |-> 0,
     in_exec |-> FALSE, map_executable |-> FALSE,
     policy |-> DefaultMmapPolicy]

\* part_000 1000-1018: a mapping with PROT_EXEC: is it made during exec, has
\* it MAP_EXECUTABLE, and the mmap policy flags the call reads
MmapDetails ==
    {d \in {[PlainCall EXCEPT !.in_exec = x, !.map_executable = m,
                              !.policy = pol] :
                x \in BOOLEAN, m \in BOOLEAN, pol \in MmapPolicies} :
        d.policy \in MmapPoliciesRead(d.in_exec, d.map_executable)}

\* part_000 626-645, 693-708: the file of an open or a close: is it a regular
\* file, and FMODE_STREAM, FMODE_NONOTIFY, FMODE_WRITE of its f_mode
FileDetails ==
    {[PlainCall EXCEPT !.regular = r, !.stream = st, !.nonotify = n,
                       !.write = w] :
        r \in BOOLEAN, st \in BOOLEAN, n \in BOOLEAN, w \in BOOLEAN}

\* part_000 783: is PTRACE_MODE_ATTACH in the mode
PtraceDetails == {[PlainCall EXCEPT !.attach = a] : a \in BOOLEAN}

\* part_000 299-343: attr->ia_valid, the new values and the inode's values
\* (a value that ia_valid does not select is never read, and is 0; uid and
\* gid are compared for equality only, so the inode's are 0, as is its mode;
\* a new size that is not 0 is not compared with the inode's, which is 0)
SetattrDetails ==
    {d \in [regular : {TRUE}, stream : {FALSE}, nonotify : {FALSE},
            write : {TRUE}, attach : {TRUE},
            ia_valid : SUBSET {ATTR_MODE, ATTR_UID, ATTR_GID, ATTR_SIZE,
                               ATTR_FILE},
            ia_mode : {0, 1}, i_mode : {0}, ia_uid : {0, 1}, i_uid : {0},
            ia_gid : {0, 1}, i_gid : {0}, ia_size : {0, 1}, i_size : {0, 1},
            in_exec : {FALSE}, map_executable : {FALSE},
            policy : {DefaultMmapPolicy}] :
        /\ ATTR_MODE \notin d.ia_valid => d.ia_mode = 0 /\ d.i_mode = 0
        /\ ATTR_UID \notin d.ia_valid => d.ia_uid = 0
        /\ ATTR_GID \notin d.ia_valid => d.ia_gid = 0
        /\ ATTR_SIZE \notin d.ia_valid => d.ia_size = 0 /\ d.i_size = 0
        /\ d.ia_size # 0 => d.i_size = 0}

\* how far a call gets: the filters end it, the allocation fails, the filling
\* fails, the queue has no room, or nothing fails
CallPaths ==
    {[pass |-> FALSE, alloc_ok |-> TRUE, fill_ok |-> TRUE, room |-> TRUE],
     [pass |-> TRUE, alloc_ok |-> FALSE, fill_ok |-> TRUE, room |-> TRUE],
     [pass |-> TRUE, alloc_ok |-> TRUE, fill_ok |-> FALSE, room |-> TRUE],
     [pass |-> TRUE, alloc_ok |-> TRUE, fill_ok |-> TRUE, room |-> FALSE],
     [pass |-> TRUE, alloc_ok |-> TRUE, fill_ok |-> TRUE, room |-> TRUE]}

\* what a call of an adapter finds: is the originator the agent, do the
\* kind-specific filters pass, do allocation and filling succeed, has the
\* queue room; for mmap, is it an exec mapping, is MAP_EXECUTABLE set, and
\* the mmap policy flags; for ptrace_access_check, is the child the agent
HookInputs(h) ==
    {inp \in
        {[self |-> s, pass |-> p.pass, alloc_ok |-> p.alloc_ok,
          fill_ok |-> p.fill_ok, room |-> p.room, in_exec |-> x[1],
          map_executable |-> x[2], child_self |-> c, policy |-> pol,
          detail |-> PlainCall] :
            s \in BOOLEAN, p \in CallPaths,
            x \in (IF h = "dynsec_mmap_file"
                   THEN BOOLEAN \X BOOLEAN ELSE {<<FALSE, FALSE>>}),
            c \in (IF h = "dynsec_ptrace_access_check"
                   THEN BOOLEAN ELSE {FALSE}),
            pol \in (IF h = "dynsec_mmap_file"
                     THEN MmapPolicies ELSE {DefaultMmapPolicy})} :
        h = "dynsec_mmap_file" =>
            inp.policy \in MmapPoliciesRead(inp.in_exec, inp.map_executable)}

\* part_000 41-45: SELF, or else STALL
StallFlags(self) ==
    {DYNSEC_REPORT_AUDIT}
    \cup (IF self THEN {DYNSEC_REPORT_SELF} ELSE {DYNSEC_REPORT_STALL})

\* an open by the agent that keeps the STALL flag
OpenFlags_keeps_stall(self, d) ==
    IF self THEN {DYNSEC_REPORT_STALL, DYNSEC_REPORT_SELF}
    ELSE {DYNSEC_REPORT_STALL}

\* part_000 605, 626-653: STALL is cleared for a stream and for a no-notify
\* file that is not open for writing; for a regular file report_flags is then
\* assigned DYNSEC_REPORT_STALL; SELF replaces STALL for the agent
OpenFlags(self, d) ==
    LET f0 == {DYNSEC_REPORT_AUDIT}
        f1 == IF d.stream THEN f0 \ {DYNSEC_REPORT_STALL} ELSE f0
        f2 == IF d.nonotify /\ ~d.write
              THEN f1 \ {DYNSEC_REPORT_STALL} ELSE f1
        f3 == IF d.regular THEN {DYNSEC_REPORT_STALL} ELSE f2
    IN IF self
       THEN (f3 \cup {DYNSEC_REPORT_SELF}) \ {DYNSEC_REPORT_STALL}
       ELSE f3

\* a policy in which the loader flag is read only for a mapping without
\* MAP_EXECUTABLE
MmapStall_ldso_for_others(in_exec, map_executable, policy) ==
    IF in_exec
    THEN IF map_executable
         THEN policy.mmap_stall_on_exec # 0
         ELSE policy.mmap_stall_on_ldso # 0
    ELSE policy.mmap_stall_misc # 0

\* part_000 1000-1018: does the mmap policy add the STALL flag
MmapStall(in_exec, map_executable, policy) ==
    IF in_exec
    THEN \/ policy.mmap_stall_on_exec # 0 /\ map_executable
         \/ policy.mmap_stall_on_ldso # 0
    ELSE policy.mmap_stall_misc # 0

\* part_000 1013-1017: a mapping outside exec that is neither stalled nor
\* reported
MmapDropped(in_exec, policy) ==
    /\ ~in_exec
    /\ policy.mmap_stall_misc = 0
    /\ policy.mmap_report_misc = 0

\* part_000 973, 1000-1024
MmapFlags(self, in_exec, map_executable, policy) ==
    LET f == {DYNSEC_REPORT_AUDIT}
             \cup (IF MmapStall(in_exec, map_executable, policy)
                   THEN {DYNSEC_REPORT_STALL} ELSE {})
    IN IF self
       THEN (f \cup {DYNSEC_REPORT_SELF}) \ {DYNSEC_REPORT_STALL}
       ELSE f

\* an enqueue-only adapter that marks its event STALL like a stalling one
AuditFlags_adds_stall(self) ==
    {DYNSEC_REPORT_AUDIT}
    \cup (IF self THEN {DYNSEC_REPORT_SELF} ELSE {DYNSEC_REPORT_STALL})

\* part_000 712-714: SELF for the agent, never STALL
AuditFlags(self) ==
    {DYNSEC_REPORT_AUDIT} \cup (IF self THEN {DYNSEC_REPORT_SELF} ELSE {})

\* part_000 905: __dynsec_task_exit sets no flag but AUDIT
ExitFlags == {DYNSEC_REPORT_AUDIT}

\* the report flags the adapter gives its event
ReportFlags(h, inp) ==
    CASE h \in StallAdapters \cup HooksCAdapters -> StallFlags(inp.self)
      [] h = "dynsec_file_open" -> OpenFlags(inp.self, inp.detail)
      [] h = "dynsec_mmap_file" ->
           MmapFlags(inp.self, inp.in_exec, inp.map_executable, inp.policy)
      [] h \in AuditAdapters -> AuditFlags(inp.self)
      [] h \in ExitAdapters -> ExitFlags

\* part_000 638-645: an open is dropped unless the file is a regular file
OpenDropped(d) == ~d.regular

\* part_000 693-708: a close is dropped for a stream, for a no-notify file
\* that is not open for writing, and for anything but a regular file
CloseDropped(d) ==
    \/ d.stream
    \/ d.nonotify /\ ~d.write
    \/ ~d.regular

\* the drop cases of a loop guard for a tracer and a child that are both the
\* agent
PtraceDropped_both_agent(self, child_self, d) ==
    \/ ~d.attach
    \/ self /\ child_self

\* part_000 783-795: an access check is dropped unless the mode is an
\* attach, and when a task that is not the agent traces the agent
PtraceDropped(self, child_self, d) ==
    \/ ~d.attach
    \/ ~self /\ child_self

\* a mask that keeps a size that is not 0
SetattrMask_keeps_fallocate(d) ==
    LET m0 == d.ia_valid \cap {ATTR_MODE, ATTR_UID, ATTR_GID, ATTR_SIZE}
        m1 == IF ATTR_MODE \in m0 /\ d.ia_mode = d.i_mode
              THEN m0 \ {ATTR_MODE} ELSE m0
        m2 == IF ATTR_UID \in m1 /\ d.ia_uid = d.i_uid
              THEN m1 \ {ATTR_UID} ELSE m1
        m3 == IF ATTR_GID \in m2 /\ d.ia_gid = d.i_gid
              THEN m2 \ {ATTR_GID} ELSE m2
    IN IF ATTR_SIZE \in m3 /\ d.ia_size = d.i_size
       THEN m3 \ {ATTR_SIZE} ELSE m3

\* part_000 299-343: attr_mask after the redundant fields are removed
SetattrMask(d) ==
    LET m0 == d.ia_valid \cap {ATTR_MODE, ATTR_UID, ATTR_GID, ATTR_SIZE}
        m1 == IF ATTR_MODE \in m0 /\ d.ia_mode = d.i_mode
              THEN m0 \ {ATTR_MODE} ELSE m0
        m2 == IF ATTR_UID \in m1 /\ d.ia_uid = d.i_uid
              THEN m1 \ {ATTR_UID} ELSE m1
        m3 == IF ATTR_GID \in m2 /\ d.ia_gid = d.i_gid
              THEN m2 \ {ATTR_GID} ELSE m2
    IN IF ATTR_SIZE \in m3
       THEN IF d.ia_size # 0 THEN m3 \ {ATTR_SIZE}
            ELSE IF d.ia_size = d.i_size THEN m3 \ {ATTR_SIZE}
            ELSE m3
       ELSE m3

\* the adapters that test their arguments for presence or kind before the
\* tests below (part_000 295-297 for SETATTR); the OPEN, CLOSE and ptrace
\* access-check adapters have no test but the ones below
TestsArguments(h) ==
    h \notin {"dynsec_file_open", "dynsec_file_free_security",
              "dynsec_ptrace_access_check"}

\* the call ends at the test of its arguments
ArgumentsRejected(h, inp) == TestsArguments(h) /\ ~inp.pass

\* the kind-specific filters that end the call before an event is allocated
Filtered(h, inp) ==
    \/ h = "dynsec_file_open" /\ OpenDropped(inp.detail)
    \/ h = "dynsec_file_free_security" /\ CloseDropped(inp.detail)
    \/ /\ h = "dynsec_ptrace_access_check"
       /\ PtraceDropped(inp.self, inp.child_self, inp.detail)
    \/ h = "dynsec_inode_setattr" /\ SetattrMask(inp.detail) = {}
    \/ h = "dynsec_mmap_file" /\ MmapDropped(inp.in_exec, inp.policy)

\* every caller of __dynsec_task_exit at low priority
LowPriority_any_exit(h, inp) ==
    \/ h = "dynsec_wake_up_new_task"
    \/ h \in ExitAdapters
    \/ h = "dynsec_mmap_file" /\ ~inp.in_exec

\* part_000 926-932, 1041-1045, 1086: the adapter enqueues at low priority
LowPriority(h, inp) ==
    \/ h = "dynsec_wake_up_new_task"
    \/ h = "dynsec_sched_process_exit_tp"
    \/ h = "dynsec_mmap_file" /\ ~inp.in_exec

\* the path one call of adapter h takes: where it ends (route), the event's
\* flags and allocation mode, and who owns the event when the adapter is done
\* with it
HookOutcome(h, inp) ==
    LET NoEvent(route) ==
            [route |-> route, flags |-> {}, gfp |-> "none", owner |-> "none"]
        Event(route, owner) ==
            [route |-> route, flags |-> ReportFlags(h, inp),
             gfp |-> AllocMode(h), owner |-> owner]
    IN IF ChecksHookMask(h) /\ HookType(h) \notin lsm_hooks_enabled
       THEN NoEvent("hook_off")
       ELSE IF ArgumentsRejected(h, inp) THEN NoEvent("no_args")
       ELSE IF Filtered(h, inp) THEN NoEvent("filtered")
       ELSE IF ~tbl_enabled THEN NoEvent("tbl_off")
       ELSE IF ~inp.alloc_ok THEN NoEvent("alloc_failed")
       ELSE IF ~inp.fill_ok
       THEN Event("fill_failed", IF FreesUnfilled(h) THEN "freed" ELSE "nobody")
       ELSE IF MayStall(h) /\ DYNSEC_REPORT_STALL \in ReportFlags(h, inp)
       THEN Event("stall", "stall_engine")
       ELSE IF inp.room
       THEN Event(IF LowPriority(h, inp) THEN "enqueue_low" ELSE "enqueue",
                  "queue")
       ELSE Event("rejected", IF FreesRejected(h) THEN "freed" ELSE "nobody")

\* the routes on which the adapter has created an event
EventRoutes == {"fill_failed", "stall", "enqueue", "enqueue_low", "rejected"}

NoHook ==
    [pc |-> "idle", h |-> "none", self |-> FALSE, child_self |-> FALSE,
     detail |-> PlainCall, route |-> "none", flags |-> {}, gfp |-> "none",
     owner |-> "none", ret |-> 0]

\* a stalling adapter at its call of dynsec_wait_event_timeout (part_000 59)
StallingHook ==
    [pc |-> "stalling", h |-> "dynsec_bprm_set_creds", self |-> FALSE,
     child_self |-> FALSE, detail |-> PlainCall, route |-> "stall",
     flags |-> StallFlags(FALSE), gfp |-> GFP_KERNEL,
     owner |-> "stall_engine", ret |-> 0]

\* enqueue_nonstall_event, enqueue_nonstall_event_low_pri: the event is
\* appended to the queue
enqueue_nonstall_event(q, ev) == Append(q, ev)

\* one call of a hook adapter, up to its return or, for an event with the
\* STALL flag, up to its call of dynsec_wait_event_timeout
hook_adapter(t, h, inp) ==
    /\ hook[t].pc = "idle"
    /\ calls < MaxCalls
    /\ calls' = calls + 1
    /\ LET o == HookOutcome(h, inp)
           id == submitted + 1
       IN /\ hook' = [hook EXCEPT ![t] =
                        [pc |-> IF o.route = "stall" THEN "stalling" ELSE "idle",
                         h |-> h, self |-> inp.self,
                         child_self |-> inp.child_self,
                         detail |-> inp.detail, route |-> o.route,
                         flags |-> o.flags, gfp |-> o.gfp, owner |-> o.owner,
                         ret |-> 0]]
          /\ submitted' = IF o.route \in EventRoutes THEN id ELSE submitted
          /\ queue' = IF o.route = "enqueue"
                      THEN enqueue_nonstall_event(queue, id) ELSE queue
          /\ queue_low' = IF o.route = "enqueue_low"
                          THEN enqueue_nonstall_event(queue_low, id)
                          ELSE queue_low
    /\ UNCHANGED <<global_config, tbl_enabled, next_req_id, entry, stall, hist,
                   responses_left, cachevars, lsm_hooks_enabled, stream>>

\* part_000 59-63: dynsec_wait_event_timeout has returned; the adapter returns
\* the response when rc is 0
hook_return(t) ==
    /\ hook[t].pc = "stalling"
    /\ stall[t].pc = "done"
    /\ hook' = [hook EXCEPT ![t].pc = "idle", ![t].ret = stall[t].hook_ret]
    /\ stall' = [stall EXCEPT ![t] = NoStall]
    /\ entry' = [entry EXCEPT ![t] = NoEntry]
    /\ hist' = [hist EXCEPT ![t] = NoHist]
    /\ UNCHANGED <<global_config, tbl_enabled, next_req_id, responses_left,
                   cachevars, lsm_hooks_enabled, calls, queue, queue_low,
                   stream, submitted>>

\* dequeue_batch, one event at a time: every normal event before any
\* low-priority event, each queue in FIFO order
dequeue_batch ==
    /\ queue # <<>> \/ queue_low # <<>>
    /\ IF queue # <<>>
       THEN /\ stream' = Append(stream, Head(queue))
            /\ queue' = Tail(queue)
            /\ UNCHANGED queue_low
       ELSE /\ stream' = Append(stream, Head(queue_low))
            /\ queue_low' = Tail(queue_low)
            /\ UNCHANGED queue
    /\ UNCHANGED <<global_config, tbl_enabled, next_req_id, entry, stall, hist,
                   responses_left, cachevars, lsm_hooks_enabled, hook, calls,
                   submitted>>

\* ---------------------------------------------------------- specifications

InitConfigs ==
    [stall_mode : {DEFAULT_DISABLED, DEFAULT_ENABLED},
     bypass_mode : {DEFAULT_DISABLED, DEFAULT_ENABLED},
     ignore_mode : {DEFAULT_DISABLED, DEFAULT_ENABLED},
     stall_timeout : {MIN_WAIT_TIMEOUT_MS},
     stall_timeout_continue : {MIN_WAIT_TIMEOUT_MS, MAX_WAIT_TIMEOUT_MS},
     stall_timeout_deny : {DEFAULT_DISABLED, DEFAULT_ENABLED}]

\* the record of configure requests before the first one: as after a
\* successful request of a privileged caller
NoIoc == [ret |-> 0, capable |-> TRUE, known |-> TRUE]

\* the state outside the hook adapters: no queued event, every hook enabled
InitHookSide ==
    /\ lsm_hooks_enabled = HookTypes
    /\ calls = 0
    /\ queue = <<>>
    /\ queue_low = <<>>
    /\ stream = <<>>
    /\ submitted = 0

\* a task in a stalling hook adapter, about to call dynsec_wait_event_timeout
InitCommon ==
    /\ global_config \in InitConfigs
    /\ tbl_enabled = TRUE
    /\ next_req_id = 1
    /\ entry = [t \in Tids |-> NoEntry]
    /\ stall = [t \in Tids |-> NoStall]
    /\ hist = [t \in Tids |-> NoHist]
    /\ hook = [t \in Tids |-> StallingHook]
    /\ ioc = NoIoc
    /\ InitHookSide

\* the stall engine: a stalling task, the agent, configure requests that set
\* the stall mode or the default verdict, and the stall table's disable. At
\* most one of bypass mode and ignore mode is on, and the continuation
\* timeout is at its least value, the stall timeout.
Init ==
    /\ InitCommon
    /\ global_config.stall_mode = DEFAULT_ENABLED
    /\ \/ global_config.bypass_mode = DEFAULT_DISABLED
       \/ global_config.ignore_mode = DEFAULT_DISABLED
    /\ global_config.stall_timeout_continue = global_config.stall_timeout
    /\ responses_left = MaxResponses
    /\ task_cache = {}
    /\ inode_cache = {}

StallStep(t) ==
    \/ \E ig \in BOOLEAN, err \in BOOLEAN : dynsec_wait_event_timeout(t, ig, err)
    \/ do_stall_init(t)
    \/ do_stall_retry(t)
    \/ do_stall_woken(t)
    \/ do_stall_timedout(t)
    \/ do_stall_interrupted(t)
    \/ do_stall_released(t)
    \/ do_stall_continue(t)
    \/ do_stall_finish(t)
    \/ dynsec_wait_event_return(t)

Next ==
    \/ \E t \in Tids : StallStep(t)
    \/ \E r \in ReqIds, resp \in Responses, tmo \in ResponseTimeouts :
         agent_write(r, resp, tmo)
    \/ \E hdr \in StallIocHdrs : handle_stall_ioc(hdr, TRUE)
    \/ stall_tbl_disable

Spec == Init /\ [][Next]_vars

\* the configuration: configure requests only; stalling starts on or off,
\* and both caches start filled
InitConfig ==
    /\ InitCommon
    /\ global_config.stall_timeout_continue = MAX_WAIT_TIMEOUT_MS
    /\ responses_left = 0
    /\ task_cache = Tids
    /\ inode_cache = Tids

NextConfig ==
    \E hdr \in IocHdrs, capable \in BOOLEAN : handle_stall_ioc(hdr, capable)

SpecConfig == InitConfig /\ [][NextConfig]_vars

\* the configure request statement by statement: one caller at a time, the
\* config lock free, stalling on or off, both caches filled
InitIoc ==
    /\ global_config \in InitConfigs
    /\ global_config.bypass_mode = DEFAULT_DISABLED
    /\ global_config.ignore_mode = DEFAULT_DISABLED
    /\ global_config.stall_timeout_continue = MAX_WAIT_TIMEOUT_MS
    /\ tbl_enabled = TRUE
    /\ next_req_id = 1
    /\ entry = [t \in Tids |-> NoEntry]
    /\ stall = [t \in Tids |-> NoStall]
    /\ hist = [t \in Tids |-> NoHist]
    /\ hook = [t \in Tids |-> StallingHook]
    /\ ioc = IdleIoc(global_config)
    /\ InitHookSide
    /\ responses_left = 0
    /\ task_cache = Tids
    /\ inode_cache = Tids

NextIoc ==
    \/ \E hdr \in StepHdrs, capable \in BOOLEAN :
         handle_stall_ioc_enter(hdr, capable)
    \/ handle_stall_ioc_lock
    \/ handle_stall_ioc_stall_mode
    \/ handle_stall_ioc_default_timeout
    \/ handle_stall_ioc_continue_timeout
    \/ handle_stall_ioc_default_deny
    \/ handle_stall_ioc_unlock
    \/ handle_stall_ioc_return

SpecIoc == InitIoc /\ [][NextIoc]_vars

\* the continuation cap: one task, and an agent that never stops answering
InitCap ==
    /\ InitCommon
    /\ global_config.stall_mode = DEFAULT_ENABLED
    /\ global_config.bypass_mode = DEFAULT_DISABLED
    /\ global_config.ignore_mode = DEFAULT_DISABLED
    /\ global_config.stall_timeout_continue = MAX_WAIT_TIMEOUT_MS
    /\ responses_left = 0
    /\ task_cache = {}
    /\ inode_cache = {}

NextCap ==
    \/ StallStep(CapTid)
    \/ \E resp \in Responses : agent_write_unbounded(next_req_id - 1, resp)

SpecCap == InitCap /\ [][NextCap]_vars

\* the continuation cap with a stalling task that is scheduled: each of its
\* steps, the end of a timed wait among them, is eventually taken
SpecCapFair == SpecCap /\ WF_vars(StallStep(CapTid))

\* the hook adapters: a task that calls hook adapters one after another, the
\* stall engine for the events that stall, the agent that answers a stall
\* with ALLOW or DENY, the reader that drains the queues, and the stall
\* table's disable. The default verdict is DENY, so that an ALLOW is never
\* the doing of a timeout.
InitHooks ==
    /\ global_config \in InitConfigs
    /\ global_config.stall_mode = DEFAULT_ENABLED
    /\ global_config.bypass_mode = DEFAULT_DISABLED
    /\ global_config.ignore_mode = DEFAULT_DISABLED
    /\ global_config.stall_timeout_deny = DEFAULT_ENABLED
    /\ global_config.stall_timeout_continue = global_config.stall_timeout
    /\ tbl_enabled = TRUE
    /\ next_req_id = 1
    /\ entry = [t \in Tids |-> NoEntry]
    /\ stall = [t \in Tids |-> NoStall]
    /\ hist = [t \in Tids |-> NoHist]
    /\ hook = [t \in Tids |-> NoHook]
    /\ ioc = NoIoc
    /\ responses_left = 0
    /\ task_cache = {}
    /\ inode_cache = {}
    /\ lsm_hooks_enabled \in {HookTypes, {}}
    /\ calls = 0
    /\ queue = <<>>
    /\ queue_low = <<>>
    /\ stream = <<>>
    /\ submitted = 0

NextHooks ==
    \/ \E t \in Tids, h \in Adapters :
         \E inp \in HookInputs(h) : hook_adapter(t, h, inp)
    \/ \E t \in Tids : hook_return(t)
    \/ \E t \in Tids : StallStep(t)
    \/ \E resp \in {DYNSEC_RESPONSE_ALLOW, DYNSEC_RESPONSE_EPERM} :
         agent_write_unbounded(next_req_id - 1, resp)
    \/ dequeue_batch
    \/ stall_tbl_disable

SpecHooks == InitHooks /\ [][NextHooks]_vars

\* the adapters with a kind-specific filter on their arguments
FilterAdapters ==
    {"dynsec_file_open", "dynsec_file_free_security",
     "dynsec_ptrace_access_check", "dynsec_inode_setattr"}

\* the arguments the task's system call carries: a file's, a ptrace
\* request's or an attribute change's
Details == FileDetails \cup PtraceDetails \cup SetattrDetails

\* the calls of such an adapter with the arguments d: as HookInputs
FilterInputs(h, d) ==
    {[self |-> s, pass |-> p.pass, alloc_ok |-> p.alloc_ok,
      fill_ok |-> p.fill_ok, room |-> p.room, in_exec |-> d.in_exec,
      map_executable |-> d.map_executable, child_self |-> c,
      policy |-> d.policy, detail |-> d] :
        s \in BOOLEAN, p \in CallPaths,
        c \in (IF h = "dynsec_ptrace_access_check" THEN BOOLEAN ELSE {FALSE})}

\* the task's system call carries any of the arguments D, every hook is
\* enabled and no agent answers, so that a stall ends by its timeout
InitDetails(D) ==
    /\ global_config \in InitConfigs
    /\ global_config.stall_mode = DEFAULT_ENABLED
    /\ global_config.bypass_mode = DEFAULT_DISABLED
    /\ global_config.ignore_mode = DEFAULT_DISABLED
    /\ global_config.stall_timeout_deny = DEFAULT_ENABLED
    /\ global_config.stall_timeout_continue = global_config.stall_timeout
    /\ tbl_enabled = TRUE
    /\ next_req_id = 1
    /\ entry = [t \in Tids |-> NoEntry]
    /\ stall = [t \in Tids |-> NoStall]
    /\ hist = [t \in Tids |-> NoHist]
    /\ \E d \in D : hook = [t \in Tids |-> [NoHook EXCEPT !.detail = d]]
    /\ ioc = NoIoc
    /\ responses_left = 0
    /\ task_cache = {}
    /\ inode_cache = {}
    /\ lsm_hooks_enabled = HookTypes
    /\ calls = 0
    /\ queue = <<>>
    /\ queue_low = <<>>
    /\ stream = <<>>
    /\ submitted = 0

InitFilters == InitDetails(Details)

NextFilters ==
    \/ \E t \in Tids, h \in FilterAdapters :
         \E inp \in FilterInputs(h, hook[t].detail) : hook_adapter(t, h, inp)
    \/ \E t \in Tids : hook_return(t)
    \/ \E t \in Tids : dynsec_wait_event_timeout(t, FALSE, FALSE)
    \/ \E t \in Tids : do_stall_init(t)
    \/ \E t \in Tids : do_stall_retry(t)
    \/ \E t \in Tids : do_stall_timedout(t)
    \/ \E t \in Tids : do_stall_finish(t)
    \/ \E t \in Tids : dynsec_wait_event_return(t)
    \/ dequeue_batch

SpecFilters == InitFilters /\ [][NextFilters]_vars

\* the MMAP adapter alone: the task's system call is a mapping with PROT_EXEC
MmapAdapters == {"dynsec_mmap_file"}

InitMmap == InitDetails(MmapDetails)

NextMmap ==
    \/ \E t \in Tids, h \in MmapAdapters :
         \E inp \in FilterInputs(h, hook[t].detail) : hook_adapter(t, h, inp)
    \/ \E t \in Tids : hook_return(t)
    \/ \E t \in Tids : dynsec_wait_event_timeout(t, FALSE, FALSE)
    \/ \E t \in Tids : do_stall_init(t)
    \/ \E t \in Tids : do_stall_retry(t)
    \/ \E t \in Tids : do_stall_timedout(t)
    \/ \E t \in Tids : do_stall_finish(t)
    \/ \E t \in Tids : dynsec_wait_event_return(t)
    \/ dequeue_batch

SpecMmap == InitMmap /\ [][NextMmap]_vars

\* ------------------------------------------------------------------ claims

\* the verdict a response stands for: DENY is -EPERM, anything else is 0
VerdictOf(resp) == IF resp = DYNSEC_RESPONSE_EPERM THEN -EPERM ELSE 0

InFlight(t) ==
    stall[t].pc \in {"stall_init", "retry", "wait", "released",
                     "released_unlocked", "finish"}
Inserted(t) == entry[t].state # "none"
Done(t) == stall[t].pc = "done"

\* C1: a stalling event that is not ignored has its Stall Entry in the table
\* from insert until remove, and remove is called exactly once for it on every
\* exit path of the stall.
C1_RemovedOnceOnEveryExit ==
    \A t \in Tids :
        /\ InFlight(t) => entry[t].linked /\ hist[t].removes = 0
        /\ (Inserted(t) /\ stall[t].pc \in {"kfree", "done"}) =>
              ~entry[t].linked /\ hist[t].removes = 1

\* C2: the hook returns -EPERM only when the last response read from user
\* space is DENY, or when the default is deny and the wait ended by timeout or
\* interrupt; in every other outcome it returns 0.
C2_DenyOnlyOnDenyOrDefaultDeny ==
    \A t \in Tids :
        Done(t) =>
            /\ stall[t].hook_ret \in {0, -EPERM}
            /\ stall[t].hook_ret = -EPERM =>
                 \/ /\ hist[t].ended = "released"
                    /\ hist[t].last_read = DYNSEC_RESPONSE_EPERM
                 \/ /\ hist[t].ended \in {"timeout", "interrupt"}
                    /\ hist[t].cfg_default = DYNSEC_RESPONSE_EPERM

\* C3: a wait round that ends by timeout or interrupt gives the default that
\* was configured when the entry was inserted, under every interleaving of
\* resolve with the waiter.
C3_TimeoutGivesConfiguredDefault ==
    \A t \in Tids :
        (Done(t) /\ hist[t].ended \in {"timeout", "interrupt"}) =>
            stall[t].hook_ret = VerdictOf(hist[t].cfg_default)

C5_CapGivesDeny ==
    \A t \in Tids :
        (Done(t) /\ stall[t].continue_count = MAX_CONTINUE_RESPONSES) =>
            stall[t].hook_ret = -EPERM

\* C5 as amended: the stall never goes round again after the 256th CONTINUE,
\* the entry is removed, and the verdict returned to the hook is ALLOW.
C5_CapGivesAllow ==
    \A t \in Tids :
        /\ stall[t].continue_count <= MAX_CONTINUE_RESPONSES
        /\ stall[t].continue_count = MAX_CONTINUE_RESPONSES =>
              /\ stall[t].pc \in {"finish", "kfree", "done"}
              /\ hist[t].ended = "cap"
              /\ Done(t) => stall[t].hook_ret = 0 /\ hist[t].removes = 1

\* C5 witness: 256 CONTINUEs were answered under default deny and the hook
\* has returned.
C5_Witness ==
    \E t \in Tids :
        /\ Done(t)
        /\ stall[t].continue_count = MAX_CONTINUE_RESPONSES
        /\ hist[t].cfg_default = DYNSEC_RESPONSE_EPERM
        /\ stall[t].hook_ret = 0

\* C6: a stall that was blocked in the wait when stall mode was turned off is
\* aborted and returns ALLOW; it does not return DENY and does not run to its
\* own timeout.
C6_ModeOffAbortsWaiters ==
    \A t \in Tids :
        (Done(t) /\ hist[t].mode_off_in_wait) =>
            /\ hist[t].ended = "disabled"
            /\ stall[t].hook_ret = 0

\* what dynsec_wait_event_timeout hands the hook for a normal ALLOW verdict
NormalAllowResult ==
    <<WaitEventRet(0), ResponseOut(DYNSEC_RESPONSE_ALLOW, 0)>>

\* C7: the result the hook gets for a stall aborted by a disable differs from
\* the result of a normal ALLOW verdict.
C7_AbortIsDistinctFromAllow ==
    \A t \in Tids :
        (Done(t) /\ hist[t].ended = "disabled") =>
            <<stall[t].rc, stall[t].response>> # NormalAllowResult

\* C8: after any sequence of configure requests the two timeouts are within
\* their ranges and ordered.
C8_TimeoutsInRange ==
    /\ MIN_WAIT_TIMEOUT_MS <= global_config.stall_timeout
    /\ global_config.stall_timeout <= MAX_WAIT_TIMEOUT_MS
    /\ global_config.stall_timeout <= global_config.stall_timeout_continue
    /\ global_config.stall_timeout_continue <= MAX_EXTENDED_TIMEOUT_MS

\* C9: the timeouts of the wait rounds of one stall sum to at most
\* stall_timeout + 256 * continue_timeout.
C9_StallIsBounded ==
    \A t \in Tids :
        hist[t].waited <=
            msecs_to_jiffies(global_config.stall_timeout)
            + MAX_CONTINUE_RESPONSES
              * msecs_to_jiffies(global_config.stall_timeout_continue)

\* C10: insert, then resolve(id, ALLOW), then the wait: the wait returns ALLOW
\* and the table holds no entry for id.
C10_InsertResolveWait ==
    \A t \in Tids :
        ( /\ Done(t)
          /\ hist[t].before_wait = {DYNSEC_RESPONSE_ALLOW}
          /\ hist[t].delivered = {DYNSEC_RESPONSE_ALLOW} ) =>
            /\ stall[t].hook_ret = 0
            /\ ~entry[t].linked

\* the task's hook adapter call has created an event
EventMade(t) == hook[t].route \in EventRoutes

\* C11: an event of the agent's own task never carries STALL, is never handed
\* to the stall engine, and its hook returns 0 without entering the stall.
C11_SelfNeverStalls ==
    \A t \in Tids :
        (hook[t].self /\ EventMade(t)) =>
            /\ DYNSEC_REPORT_STALL \notin hook[t].flags
            /\ hook[t].route # "stall"
            /\ hook[t].owner # "stall_engine"
            /\ hook[t].pc = "idle"
            /\ stall[t].pc = "idle"
            /\ hook[t].ret = 0

\* C11 witness: the agent opens a regular file; the event carries SELF, is
\* in the normal queue, and the hook has returned 0.
C11_Witness ==
    \E t \in Tids :
        /\ hook[t].self
        /\ hook[t].h = "dynsec_file_open"
        /\ hook[t].route = "enqueue"
        /\ DYNSEC_REPORT_SELF \in hook[t].flags
        /\ queue # <<>>
        /\ hook[t].ret = 0

\* the adapters of the CLOSE, SIGNAL, CLONE and EXIT events
AtomicAdapters ==
    {"dynsec_file_free_security", "dynsec_task_kill",
     "dynsec_sched_process_fork_tp", "dynsec_wake_up_new_task"}
    \cup ExitAdapters

\* C12 as stated: the adapters of CLOSE, SIGNAL, MMAP, CLONE and EXIT never
\* call the stall engine and allocate their event with GFP_ATOMIC.
C12_AtomicHooksNeverStall ==
    \A t \in Tids :
        (EventMade(t) /\ hook[t].h \in AtomicAdapters \cup {"dynsec_mmap_file"}) =>
            /\ hook[t].route # "stall"
            /\ hook[t].gfp = GFP_ATOMIC

\* C12 as amended: the adapters of CLOSE, SIGNAL, CLONE and EXIT never call
\* the stall engine and allocate with GFP_ATOMIC; the MMAP adapter allocates
\* with GFP_KERNEL and calls the stall engine exactly when its event carries
\* STALL, which it never does for the agent's own task.
C12_AtomicHooksButMmapNeverStall ==
    \A t \in Tids :
        /\ (EventMade(t) /\ hook[t].h \in AtomicAdapters) =>
              /\ hook[t].route # "stall"
              /\ hook[t].pc = "idle"
              /\ DYNSEC_REPORT_STALL \notin hook[t].flags
              /\ hook[t].gfp = GFP_ATOMIC
        /\ (EventMade(t) /\ hook[t].h = "dynsec_mmap_file") =>
              /\ hook[t].gfp = GFP_KERNEL
              /\ hook[t].route # "fill_failed" =>
                    (hook[t].route = "stall"
                        <=> DYNSEC_REPORT_STALL \in hook[t].flags)
              /\ hook[t].self => DYNSEC_REPORT_STALL \notin hook[t].flags

\* C12 witness: a task is blocked in the stall engine's wait inside the MMAP
\* adapter.
C12_Witness ==
    \E t \in Tids :
        /\ hook[t].h = "dynsec_mmap_file"
        /\ hook[t].pc = "stalling"
        /\ hook[t].gfp = GFP_KERNEL
        /\ stall[t].pc = "wait"

\* C13: an adapter whose hook type is not in the hook mask creates no event
\* and returns 0.
C13_DisabledHookMakesNoEvent ==
    \A t \in Tids :
        (hook[t].h \in Adapters /\ HookType(hook[t].h) \notin lsm_hooks_enabled) =>
            /\ ~EventMade(t)
            /\ hook[t].pc = "idle"
            /\ hook[t].ret = 0

\* C14: the events of the task are delivered in the order in which the task
\* submitted them.
C14_DeliveredInSubmissionOrder ==
    \A i \in DOMAIN stream : \A j \in DOMAIN stream :
        i < j => stream[i] < stream[j]

\* C15: an event an adapter has created is freed, handed to the stall engine
\* or accepted by a queue; an event the queue did not accept is freed.
C15_EveryEventHasOneOwner ==
    \A t \in Tids :
        EventMade(t) =>
            /\ hook[t].owner \in {"freed", "stall_engine", "queue"}
            /\ hook[t].route = "rejected" => hook[t].owner = "freed"

\* C16 as stated: a request of a caller without the capability returns -EPERM,
\* a request whose flags select no known sub-setting returns -EINVAL, and
\* neither changes the Config or a cache.
C16_UnprivilegedIsEperm ==
    [][ /\ ~ioc'.capable =>
             /\ ioc'.ret = -EPERM
             /\ UNCHANGED <<global_config, task_cache, inode_cache>>
        /\ ~ioc'.known =>
             /\ ioc'.ret = -EINVAL
             /\ UNCHANGED <<global_config, task_cache, inode_cache>> ]_vars

\* C16 as amended: a request whose flags select no known sub-setting returns
\* -EINVAL whoever the caller is; a request that selects one, from a caller
\* without the capability, returns -EPERM; neither changes the Config or a
\* cache.
C16_InvalidBeforeUnprivileged ==
    [][ /\ ~ioc'.known =>
             /\ ioc'.ret = -EINVAL
             /\ UNCHANGED <<global_config, task_cache, inode_cache>>
        /\ (ioc'.known /\ ~ioc'.capable) =>
             /\ ioc'.ret = -EPERM
             /\ UNCHANGED <<global_config, task_cache, inode_cache>>
        /\ (ioc'.known /\ ioc'.capable) => ioc'.ret = 0 ]_vars

\* C16 witness: the last request selected a known sub-setting, came from a
\* caller without the capability, and returned -EPERM.
C16_Witness ==
    /\ ioc.known
    /\ ~ioc.capable
    /\ ioc.ret = -EPERM

\* C17: a configure request that changes stall_mode leaves both caches
\* empty; one that leaves stall_mode as it is leaves both caches as they are.
C17_FlushOnModeChange ==
    [][ /\ global_config'.stall_mode # global_config.stall_mode =>
             /\ task_cache' = {}
             /\ inode_cache' = {}
        /\ global_config'.stall_mode = global_config.stall_mode =>
             UNCHANGED <<task_cache, inode_cache>> ]_vars

\* C17 witness: stalling is on after a successful request, and both caches,
\* which were filled, are empty.
C17_Witness ==
    /\ ioc.ret = 0
    /\ global_config.stall_mode = DEFAULT_ENABLED
    /\ task_cache = {}
    /\ inode_cache = {}

\* C18: every event an adapter creates carries the AUDIT flag.
C18_EveryEventCarriesAudit ==
    \A t \in Tids :
        EventMade(t) => DYNSEC_REPORT_AUDIT \in hook[t].flags

C19_WitnessFill ==
    \E t \in Tids :
        /\ hook[t].pc = "idle"
        /\ hook[t].route = "fill_failed"
        /\ hook[t].owner = "freed"
        /\ hook[t].ret = 0

\* C20: an event with the IGNORE flag that reaches the stall engine while
\* ignore mode is on is freed, no Stall Entry is inserted for it, the caller
\* never waits, and the hook returns 0.
C20_IgnoredEventIsFreed ==
    \A t \in Tids :
        hist[t].ended = "ignored" =>
            /\ Done(t)
            /\ entry[t].state = "none"
            /\ ~entry[t].linked
            /\ hist[t].event = "freed"
            /\ hist[t].waited = 0
            /\ stall[t].rc = -ECHILD
            /\ stall[t].hook_ret = 0

\* C20 witness: under default deny and ignore mode, an ignorable event has
\* been through the stall engine and the hook has returned 0.
C20_Witness ==
    \E t \in Tids :
        /\ Done(t)
        /\ hist[t].ended = "ignored"
        /\ ignore_mode_enabled
        /\ deny_on_timeout_enabled
        /\ stall[t].hook_ret = 0

\* the adapters of CLOSE, SIGNAL, CLONE, EXIT, TASK_FREE and the two ptrace
\* hooks
EnqueueOnlyAdapters == AuditAdapters \cup ExitAdapters

\* an event of the task's call went past the filling
EventFilled(t) == hook[t].route \in EventRoutes \ {"fill_failed"}

\* C21 as stated: the enqueue-only adapters never set STALL and never call
\* the stall engine; every other adapter calls the stall engine for an event
\* of a task that is not the agent.
C21_OthersAlwaysStall ==
    \A t \in Tids :
        /\ (EventMade(t) /\ hook[t].h \in EnqueueOnlyAdapters) =>
              /\ DYNSEC_REPORT_STALL \notin hook[t].flags
              /\ hook[t].route # "stall"
        /\ ( /\ EventFilled(t)
             /\ hook[t].h \in Adapters \ EnqueueOnlyAdapters
             /\ ~hook[t].self ) =>
              hook[t].route = "stall"

\* what a call of the MMAP adapter may find
MmapInputs == HookInputs("dynsec_mmap_file")

\* the event of a call of the MMAP adapter carries STALL exactly when the
\* task is not the agent and the mmap policy asks for a stall
MmapStallFollowsPolicy ==
    \A inp \in MmapInputs :
        DYNSEC_REPORT_STALL \in ReportFlags("dynsec_mmap_file", inp) <=>
            /\ ~inp.self
            /\ MmapStall(inp.in_exec, inp.map_executable, inp.policy)

\* C21 as amended: the enqueue-only adapters never set STALL and never call
\* the stall engine; every other adapter but the MMAP one calls the stall
\* engine for an event of a task that is not the agent; the MMAP adapter
\* calls it exactly when the task is not the agent and the mmap policy asks
\* for a stall, and enqueues otherwise.
C21_OthersButMmapAlwaysStall ==
    /\ \A t \in Tids :
          /\ (EventMade(t) /\ hook[t].h \in EnqueueOnlyAdapters) =>
                /\ DYNSEC_REPORT_STALL \notin hook[t].flags
                /\ hook[t].route # "stall"
                /\ hook[t].pc = "idle"
          /\ ( /\ EventFilled(t)
               /\ hook[t].h \in Adapters \ EnqueueOnlyAdapters
               /\ hook[t].h # "dynsec_mmap_file"
               /\ ~hook[t].self ) =>
                /\ hook[t].route = "stall"
                /\ DYNSEC_REPORT_STALL \in hook[t].flags
    /\ \A t \in Tids :
          (EventFilled(t) /\ hook[t].h = "dynsec_mmap_file") =>
              /\ hook[t].route = "stall" <=>
                    DYNSEC_REPORT_STALL \in hook[t].flags
              /\ hook[t].self => DYNSEC_REPORT_STALL \notin hook[t].flags
    /\ MmapStallFollowsPolicy

\* C21 witness: a task that is not the agent called ptrace TRACEME; its
\* event carries no STALL and is in the normal queue.
C21_Witness ==
    \E t \in Tids :
        /\ hook[t].h = "dynsec_ptrace_traceme"
        /\ ~hook[t].self
        /\ hook[t].route = "enqueue"
        /\ DYNSEC_REPORT_STALL \notin hook[t].flags
        /\ hook[t].pc = "idle"
        /\ queue # <<>>

\* C22: a stall makes at most MAX_CONTINUE_RESPONSES wait rounds, whatever
\* the agent answers, and a stall that has begun returns.
C22_StallTerminates ==
    /\ [](\A t \in Tids : hist[t].rounds <= MAX_CONTINUE_RESPONSES)
    /\ \A t \in Tids : (stall[t].pc = "stall_init") ~> Done(t)

\* C22 witness: the stall has returned after MAX_CONTINUE_RESPONSES wait
\* rounds, each but the last ended by a CONTINUE, the last by a timeout.
C22_Witness ==
    \E t \in Tids :
        /\ Done(t)
        /\ hist[t].rounds = MAX_CONTINUE_RESPONSES
        /\ stall[t].continue_count = MAX_CONTINUE_RESPONSES - 1
        /\ hist[t].ended = "timeout"

\* C23: the waiter's copy is the response and the continuation timeout the
\* entry held; after a CONTINUE the round's timeout is the copied timeout
\* when it is not 0 and the configured continuation timeout otherwise; and a
\* stall that ends after a CONTINUE returns -EPERM exactly when the response
\* copied last was DENY or, on a timeout or an interrupt, when its default
\* was DENY.
C23_ContinueThenNextDecides ==
    \A t \in Tids :
        /\ stall[t].pc = "released_unlocked" =>
              /\ stall[t].local_response = hist[t].last_read
              /\ stall[t].local_timeout = hist[t].read_timeout
        /\ ( /\ stall[t].pc \in {"retry", "wait", "released"}
             /\ stall[t].continue_count > 0 ) =>
              stall[t].timeout =
                 IF hist[t].read_timeout # 0
                 THEN msecs_to_jiffies(hist[t].read_timeout)
                 ELSE msecs_to_jiffies(global_config.stall_timeout_continue)
        /\ ( /\ Done(t)
             /\ stall[t].continue_count > 0
             /\ hist[t].ended = "released" ) =>
              /\ hist[t].last_read \in
                    {DYNSEC_RESPONSE_ALLOW, DYNSEC_RESPONSE_EPERM}
              /\ stall[t].hook_ret =
                    IF hist[t].last_read = DYNSEC_RESPONSE_EPERM
                    THEN -EPERM ELSE 0
        /\ ( /\ Done(t)
             /\ stall[t].continue_count > 0
             /\ hist[t].ended \in {"timeout", "interrupt"} ) =>
              stall[t].hook_ret =
                 IF stall[t].default_reponse = DYNSEC_RESPONSE_EPERM
                 THEN -EPERM ELSE 0

\* C23 witness: under default allow the agent answered CONTINUE with a
\* continuation timeout of its own, then DENY; the second round waited that
\* timeout and the hook returns -EPERM.
C23_Witness ==
    \E t \in Tids :
        /\ Done(t)
        /\ ~deny_on_timeout_enabled
        /\ hist[t].cfg_default = DYNSEC_RESPONSE_ALLOW
        /\ stall[t].continue_count = 1
        /\ stall[t].timeout = msecs_to_jiffies(MAX_EXTENDED_TIMEOUT_MS)
        /\ hist[t].delivered =
              {DYNSEC_RESPONSE_CONTINUE, DYNSEC_RESPONSE_EPERM}
        /\ hist[t].ended = "released"
        /\ stall[t].hook_ret = -EPERM

\* C24: the entry of a stall is released exactly while it holds a response
\* the waiter has not copied; a waiter that was woken has such a response to
\* copy; a waiter in a wait round whose entry holds one cannot time out; and
\* right after the copy the waiter's locals are the response and the timeout
\* it read.
C24_ReleaseConsumedOnce ==
    \A t \in Tids :
        /\ entry[t].state = "live" =>
              (WaitCondition(entry[t]) <=> hist[t].pending)
        /\ stall[t].pc = "released" => hist[t].pending
        /\ (stall[t].pc = "wait" /\ hist[t].pending) =>
              /\ ENABLED do_stall_woken(t)
              /\ ~ENABLED do_stall_timedout(t)
              /\ ~ENABLED do_stall_interrupted(t)
        /\ (stall[t].pc = "released_unlocked" /\ ~hist[t].pending) =>
              /\ stall[t].local_response = entry[t].response
              /\ stall[t].local_timeout = entry[t].stall_timeout
              /\ entry[t].mode = DYNSEC_STALL_MODE_STALL

\* C24 witness: the waiter copied a CONTINUE and re-armed; a DENY that
\* arrived after the re-arm has ended the second wait round and is about to
\* be copied.
C24_Witness ==
    \E t \in Tids :
        /\ stall[t].pc = "released"
        /\ hist[t].rounds = 2
        /\ hist[t].last_read = DYNSEC_RESPONSE_CONTINUE
        /\ hist[t].pending
        /\ entry[t].response = DYNSEC_RESPONSE_EPERM
        /\ entry[t].mode = DYNSEC_STALL_MODE_RELEASED

\* the file of the call is not a regular file, or is a no-notify file that
\* is not open for writing
NotWorthReporting(d) ==
    \/ ~d.regular
    \/ d.nonotify /\ ~d.write

\* C25: a call of the OPEN or the CLOSE adapter on a file that is not a
\* regular file, or on a no-notify file that is not open for writing,
\* creates no event and never enters the stall.
C25_OpenCloseDropped ==
    \A t \in Tids :
        ( /\ hook[t].h \in {"dynsec_file_open", "dynsec_file_free_security"}
          /\ NotWorthReporting(hook[t].detail) ) =>
            /\ ~EventFilled(t)
            /\ hook[t].route # "stall"
            /\ hook[t].pc = "idle"

\* the call of the adapter went past its filters and its event was
\* allocated, filled and accepted by the queue or the stall engine
EventDelivered(t) == hook[t].route \in {"stall", "enqueue", "enqueue_low"}

\* the call of the adapter ended at a failure after its filters: allocation,
\* filling or a full queue
EventLost(t) == hook[t].route \in {"alloc_failed", "fill_failed", "rejected"}

\* C26: the ptrace access-check adapter makes no event when the mode is not
\* an attach and when the tracer and the child are both the agent; in every
\* other case, unless allocation, filling or the queue fails, it enqueues one
\* event that carries AUDIT.
C26_PtraceDropsBothAgent ==
    \A t \in Tids :
        hook[t].h = "dynsec_ptrace_access_check" =>
            IF PtraceDropped_both_agent(hook[t].self, hook[t].child_self,
                                        hook[t].detail)
            THEN ~EventMade(t)
            ELSE \/ EventLost(t)
                 \/ /\ hook[t].route = "enqueue"
                    /\ DYNSEC_REPORT_AUDIT \in hook[t].flags

\* the attribute change d changes a field: a selected mode, uid or gid that
\* differs from the inode's, or a selected size of 0 for an inode whose size
\* is not 0
SetattrChanges(d) ==
    \/ ATTR_MODE \in d.ia_valid /\ d.ia_mode # d.i_mode
    \/ ATTR_UID \in d.ia_valid /\ d.ia_uid # d.i_uid
    \/ ATTR_GID \in d.ia_valid /\ d.ia_gid # d.i_gid
    \/ ATTR_SIZE \in d.ia_valid /\ d.ia_size = 0 /\ d.i_size # 0

\* C27: a call of the SETATTR adapter with its arguments present makes no
\* event and returns 0 (ALLOW) exactly when no field changes; when a field
\* changes an event is made: it is handed to the stall engine or the queue
\* unless its allocation or filling fails or the queue is full.
C27_SetattrRedundant ==
    \A t \in Tids :
        (hook[t].h = "dynsec_inode_setattr" /\ hook[t].route # "no_args") =>
            IF SetattrChanges(hook[t].detail)
            THEN EventDelivered(t) \/ EventLost(t)
            ELSE /\ hook[t].route = "filtered"
                 /\ ~EventMade(t)
                 /\ hook[t].pc = "idle"
                 /\ hook[t].ret = 0

\* a size that is not 0 and a mode equal to the inode's were selected and
\* the call made no event
C27_Witness ==
    \E t \in Tids :
        /\ hook[t].h = "dynsec_inode_setattr"
        /\ hook[t].detail.ia_valid = {ATTR_MODE, ATTR_SIZE, ATTR_FILE}
        /\ hook[t].detail.ia_mode = hook[t].detail.i_mode
        /\ hook[t].detail.ia_size # 0
        /\ hook[t].route = "filtered"
        /\ hook[t].ret = 0

\* x brought into lo .. hi: the nearest value of the range
Clamp(x, lo, hi) == IF x < lo THEN lo ELSE IF x > hi THEN hi ELSE x

\* a configure request of a privileged caller that selects a known
\* sub-setting has returned
IocDone == ioc.pc = "returned" /\ ioc.capable /\ ioc.flags # {}

\* C28: a configure request of a privileged caller that selects a timeout
\* returns 0 whatever the value, stall_timeout is the request clamped to
\* MIN_WAIT_TIMEOUT_MS .. MAX_WAIT_TIMEOUT_MS, and stall_timeout_continue is
\* the request clamped to stall_timeout .. MAX_EXTENDED_TIMEOUT_MS, with
\* stall_timeout as the request leaves it.
C28_TimeoutsClamped ==
    IocDone =>
        /\ ioc.ret = 0
        /\ DYNSEC_STALL_DEFAULT_TIMEOUT \in ioc.flags =>
              global_config.stall_timeout =
                  Clamp(ioc.hdr.stall_timeout, MIN_WAIT_TIMEOUT_MS,
                        MAX_WAIT_TIMEOUT_MS)
        /\ DYNSEC_STALL_CONTINUE_TIMEOUT \in ioc.flags =>
              global_config.stall_timeout_continue =
                  Clamp(ioc.hdr.stall_timeout_continue,
                        global_config.stall_timeout, MAX_EXTENDED_TIMEOUT_MS)

\* a request that raised stall_timeout above the continuation timeout it
\* asked for has returned: the continuation timeout is the new stall_timeout
C28_Witness ==
    /\ IocDone
    /\ {DYNSEC_STALL_DEFAULT_TIMEOUT, DYNSEC_STALL_CONTINUE_TIMEOUT}
          \subseteq ioc.flags
    /\ ioc.hdr.stall_timeout > MAX_WAIT_TIMEOUT_MS
    /\ ioc.hdr.stall_timeout_continue < MIN_WAIT_TIMEOUT_MS
    /\ ioc.before.stall_timeout = MIN_WAIT_TIMEOUT_MS
    /\ global_config.stall_timeout = MAX_WAIT_TIMEOUT_MS
    /\ global_config.stall_timeout_continue = MAX_WAIT_TIMEOUT_MS

\* the sub-setting of the Config that each flag of a request selects
IocSelects ==
    [stall_mode |-> DYNSEC_STALL_MODE_SET,
     stall_timeout |-> DYNSEC_STALL_DEFAULT_TIMEOUT,
     stall_timeout_continue |-> DYNSEC_STALL_CONTINUE_TIMEOUT,
     stall_timeout_deny |-> DYNSEC_STALL_DEFAULT_DENY]

\* C29: when a configure request has returned, every sub-setting whose flag
\* the request does not carry has the value it had before the request,
\* bypass_mode and ignore_mode have theirs, and the Config is the one the same
\* request without its unknown flag bits leaves.
C29_OnlySelectedChange ==
    ioc.pc = "returned" =>
        /\ \A f \in DOMAIN IocSelects :
              IocSelects[f] \notin ioc.hdr.flags =>
                  global_config[f] = ioc.before[f]
        /\ global_config.bypass_mode = ioc.before.bypass_mode
        /\ global_config.ignore_mode = ioc.before.ignore_mode
        /\ global_config =
              IF ioc.ret = 0
              THEN IocApply(ioc.before, ioc.hdr.flags \cap IocFlagBits, ioc.hdr)
              ELSE ioc.before

\* a request that carried an unknown flag bit and selected the stall timeout
\* only has returned: the stall timeout has changed and nothing else has
C29_Witness ==
    /\ ioc.pc = "returned"
    /\ ioc.ret = 0
    /\ ioc.hdr.flags = {DYNSEC_STALL_DEFAULT_TIMEOUT, "UNKNOWN_BIT"}
    /\ global_config.stall_timeout # ioc.before.stall_timeout
    /\ global_config = [ioc.before EXCEPT
                          !.stall_timeout = global_config.stall_timeout]

\* C30: a configure request writes the Config and flushes the caches only
\* while it holds the config lock; when it has returned the lock is free; and
\* a request that returns an error has never taken the lock.
C30_ConfigLockDiscipline ==
    /\ [](ioc.pc = "returned" => ~ioc.locked)
    /\ [](ioc.ret # 0 => ~ioc.took_lock)
    /\ [][ <<global_config, task_cache, inode_cache>>' #
              <<global_config, task_cache, inode_cache>> =>
                (ioc.locked /\ ioc'.locked) ]_vars

\* a request that changed the Config and flushed the caches has returned 0
\* with the lock free
C30_Witness ==
    /\ ioc.pc = "returned"
    /\ ioc.ret = 0
    /\ ioc.took_lock
    /\ ~ioc.locked
    /\ global_config # ioc.before
    /\ task_cache = {}

\* a request has returned -EPERM without taking the lock
C30_WitnessError ==
    /\ ioc.pc = "returned"
    /\ ioc.ret = -EPERM
    /\ ~ioc.took_lock
    /\ ~ioc.locked

\* the adapters whose event goes to the low-priority queue whatever the call:
\* the kprobe-sourced clone and the tracepoint exit
LowPriorityAdapters ==
    {"dynsec_wake_up_new_task", "dynsec_sched_process_exit_tp"}

\* a call of the MMAP adapter that enqueues its event enqueues it at low
\* priority exactly when the mapping is outside exec
MmapLowOutsideExec ==
    \A inp \in MmapInputs :
        LET o == HookOutcome("dynsec_mmap_file", inp)
        IN o.route \in {"enqueue", "enqueue_low"} =>
             (o.route = "enqueue_low" <=> ~inp.in_exec)

C32_FreedEntryIsUnlinked ==
    \A t \in Tids :
        /\ entry[t].state = "freed" =>
              /\ ~entry[t].linked
              /\ Lookup(entry[t].req_id) = {}
        /\ ~hist[t].uaf

\* C33: a call of the MMAP adapter with PROT_EXEC by a task that is not the
\* agent, whose event is allocated and filled, stalls during exec exactly
\* when mmap_stall_on_exec is set and the mapping has MAP_EXECUTABLE, or
\* mmap_stall_on_ldso is set, and is never dropped there; outside exec it
\* stalls exactly when mmap_stall_misc is set and is dropped exactly when
\* neither mmap_stall_misc nor mmap_report_misc is set.
C33_MmapStallPolicy ==
    \A t \in Tids :
        ( /\ hook[t].h = "dynsec_mmap_file"
          /\ ~hook[t].self
          /\ hook[t].route \notin {"no_args", "alloc_failed", "fill_failed"} ) =>
            LET d == hook[t].detail
                pol == hook[t].detail.policy
            IN IF d.in_exec
               THEN /\ hook[t].route = "stall" <=>
                         \/ pol.mmap_stall_on_exec # 0 /\ d.map_executable
                         \/ pol.mmap_stall_on_ldso # 0
                    /\ hook[t].route # "filtered"
               ELSE /\ hook[t].route = "stall" <=> pol.mmap_stall_misc # 0
                    /\ hook[t].route = "filtered" <=>
                         /\ pol.mmap_stall_misc = 0
                         /\ pol.mmap_report_misc = 0

\* a mapping with MAP_EXECUTABLE made during exec stalls with
\* mmap_stall_on_exec clear, because mmap_stall_on_ldso is set
C33_Witness ==
    \E t \in Tids :
        /\ hook[t].h = "dynsec_mmap_file"
        /\ ~hook[t].self
        /\ hook[t].detail.in_exec
        /\ hook[t].detail.map_executable
        /\ hook[t].detail.policy.mmap_stall_on_exec = 0
        /\ hook[t].detail.policy.mmap_stall_on_ldso # 0
        /\ hook[t].route = "stall"
        /\ hook[t].pc = "stalling"

\* C34: the default verdict of a stall is fixed when its entry is inserted: a
\* stall that ends by timeout returns the default configured at insert,
\* whatever deny_on_timeout is by then; the first wait round waits the
\* stall_timeout read at the start of the stall; and a continuation round
\* waits the timeout of the CONTINUE or, without one, continue_timeout.
C34_DefaultFixedAtInsert ==
    \A t \in Tids :
        /\ (Done(t) /\ hist[t].ended = "timeout") =>
              stall[t].hook_ret = VerdictOf(hist[t].cfg_default)
        /\ (stall[t].pc = "wait" /\ stall[t].continue_count = 0) =>
              stall[t].timeout = msecs_to_jiffies(get_wait_timeout)
        /\ (stall[t].pc = "wait" /\ stall[t].continue_count > 0) =>
              stall[t].timeout = ContinueTimeout(hist[t].read_timeout)

\* C34, the part the code keeps: the verdict of a timeout is the default the
\* waiter read at hooks.h:104, whatever deny_on_timeout is by then.
C34_TimeoutGivesReadDefault ==
    \A t \in Tids :
        (Done(t) /\ hist[t].ended = "timeout") =>
            stall[t].hook_ret = VerdictOf(stall[t].default_reponse)

\* C34: a stall times out after a configure request flipped deny_on_timeout
\* while it was in flight, with no response from the agent.
C34_FlippedInFlight ==
    \E t \in Tids :
        /\ stall[t].pc = "finish"
        /\ hist[t].ended = "timeout"
        /\ hist[t].delivered = {}
        /\ hist[t].cfg_default # DefaultResponse(global_config)
        /\ stall[t].default_reponse = hist[t].cfg_default

\* C34 without its first clause: the timeouts of the wait rounds.
C34_RoundTimeouts ==
    \A t \in Tids :
        /\ (stall[t].pc = "wait" /\ stall[t].continue_count = 0) =>
              stall[t].timeout = msecs_to_jiffies(get_wait_timeout)
        /\ (stall[t].pc = "wait" /\ stall[t].continue_count > 0) =>
              stall[t].timeout = ContinueTimeout(hist[t].read_timeout)

\* C35: a configure request is idempotent on the Config: when a request has
\* returned, the Config is the one the four updates of the request make of
\* the Config it found (the one it found, for a request that returns an
\* error), and the same request applied to the Config it leaves gives that
\* Config again.
C35_ConfigureIdempotent ==
    ioc.pc = "returned" =>
        /\ global_config =
              IF ioc.ret = 0
              THEN IocApply(ioc.before, ioc.flags, ioc.hdr)
              ELSE ioc.before
        /\ IocRet(ioc.hdr, ioc.capable) = ioc.ret
        /\ ioc.ret = 0 =>
              IocApply(global_config, IocFlags(ioc.hdr), ioc.hdr) =
                  global_config

\* a request that selected all four sub-settings and changed each of them
\* has returned, with both timeouts changed to values the request did not
\* carry
C35_Witness ==
    /\ ioc.pc = "returned"
    /\ ioc.ret = 0
    /\ ioc.flags = IocFlagBits
    /\ \A f \in DOMAIN IocSelects : global_config[f] # ioc.before[f]
    /\ global_config.stall_timeout # ioc.hdr.stall_timeout
    /\ global_config.stall_timeout_continue # ioc.hdr.stall_timeout_continue
====
